---- MODULE Spec2Model ----
(***************************************************************************)
(* Bundle decoding of Firestore/core/src/bundle/bundle_serializer.cc.      *)
(*                                                                         *)
(* One behaviour is one record decode: a caller creates a JsonReader and   *)
(* calls one of the four entry points of BundleSerializer on one input     *)
(* string.  The statements of the entry point (and, for DecodeNamedQuery,  *)
(* the statements of DecodeBundledQuery it calls) are the actions; the     *)
(* helper functions they call are operators that take the reader's status  *)
(* and return the new status together with the decoded value.              *)
(*                                                                         *)
(* Representation                                                          *)
(*   strings      TLA+ strings, taken apart character by character         *)
(*   json         <<kind, payload>> with kind one of "null", "boolean",    *)
(*                "int", "float", "string", "array", "object";             *)
(*                an object's payload is a function from its keys,         *)
(*                an array's payload a sequence; <<"discarded">> is what   *)
(*                json::parse returns for text that is not JSON            *)
(*   doubles      tenths, as integers (15 is 1.5)                          *)
(*   integers     TLC integers; every integer of the model fits int32, so  *)
(*                get<int32_t>/get<int64_t> do not truncate                *)
(*   Timestamp    <<seconds, nanos>>                                       *)
(*   FieldValue   <<type, payload>>, FieldValue() being <<"null">>         *)
(***************************************************************************)
EXTENDS Integers, Sequences, FiniteSets, TLC

VARIABLES entry, input, evalOrder, pc, status, todo, locals, key, result,
          other, alone

\* The state of one call: its arguments, its position, its reader and what
\* it has computed.
callVars == <<entry, input, evalOrder, pc, status, todo, locals, key, result>>

vars == <<entry, input, evalOrder, pc, status, todo, locals, key, result,
          other, alone>>

(***************************************************************************)
(* Strings                                                                 *)
(***************************************************************************)

RECURSIVE SplitFrom(_, _, _, _, _)
SplitFrom(s, sep, i, cur, acc) ==
    IF i > Len(s) THEN Append(acc, cur)
    ELSE IF SubSeq(s, i, i) = sep
         THEN SplitFrom(s, sep, i + 1, "", Append(acc, cur))
         ELSE SplitFrom(s, sep, i + 1, cur \o SubSeq(s, i, i), acc)

\* The pieces of s between the occurrences of sep, empty pieces included.
StrSplit(s, sep) == SplitFrom(s, sep, 1, "", <<>>)

RECURSIVE StrJoin(_, _)
StrJoin(segs, sep) ==
    IF Len(segs) = 0 THEN ""
    ELSE IF Len(segs) = 1 THEN segs[1]
    ELSE segs[1] \o sep \o StrJoin(Tail(segs), sep)

IsEmptyString(s) == Len(s) = 0

NonEmptyPieces(pieces) == SelectSeq(pieces, LAMBDA p : ~IsEmptyString(p))

DigitValue ==
    "0" :> 0 @@ "1" :> 1 @@ "2" :> 2 @@ "3" :> 3 @@ "4" :> 4 @@
    "5" :> 5 @@ "6" :> 6 @@ "7" :> 7 @@ "8" :> 8 @@ "9" :> 9

IsDigits(s) ==
    /\ Len(s) > 0
    /\ \A i \in 1..Len(s) : SubSeq(s, i, i) \in DOMAIN DigitValue

RECURSIVE DigitsToInt(_, _, _)
DigitsToInt(s, i, acc) ==
    IF i > Len(s) THEN acc
    ELSE DigitsToInt(s, i + 1, acc * 10 + DigitValue[SubSeq(s, i, i)])

UnsignedTypes == {"uint32_t", "uint64_t"}

\* absl::SimpleAtoi<int_type>: an optional minus sign (signed types only)
\* followed by decimal digits, nothing else; the output is 0 when the
\* string is not a number.
SimpleAtoi(s, int_type) ==
    IF IsDigits(s) THEN [ok |-> TRUE, v |-> DigitsToInt(s, 1, 0)]
    ELSE IF /\ int_type \notin UnsignedTypes
            /\ Len(s) > 1
            /\ SubSeq(s, 1, 1) = "-"
            /\ IsDigits(SubSeq(s, 2, Len(s)))
         THEN [ok |-> TRUE, v |-> 0 - DigitsToInt(SubSeq(s, 2, Len(s)), 1, 0)]
         ELSE [ok |-> FALSE, v |-> 0]

\* absl::SimpleAtod, for decimal strings with at most one fraction digit;
\* the result is in tenths.
SimpleAtod(s) ==
    LET parts == StrSplit(s, ".")
    IN  IF Len(parts) = 1 /\ SimpleAtoi(s, "int64_t").ok
            THEN [ok |-> TRUE, v |-> SimpleAtoi(s, "int64_t").v * 10]
        ELSE IF /\ Len(parts) = 2
                /\ SimpleAtoi(parts[1], "int64_t").ok
                /\ Len(parts[2]) = 1
                /\ IsDigits(parts[2])
            THEN [ok |-> TRUE,
                  v |-> IF SubSeq(s, 1, 1) = "-"
                        THEN SimpleAtoi(parts[1], "int64_t").v * 10
                             - DigitValue[parts[2]]
                        ELSE SimpleAtoi(parts[1], "int64_t").v * 10
                             + DigitValue[parts[2]]]
        ELSE [ok |-> FALSE, v |-> 0]

(***************************************************************************)
(* nlohmann::json                                                          *)
(***************************************************************************)

JNull == <<"null">>
JBool(b) == <<"boolean", b>>
JInt(n) == <<"int", n>>
JFloat(tenths) == <<"float", tenths>>
JStr(s) == <<"string", s>>
JArr(elems) == <<"array", elems>>
JObj(members) == <<"object", members>>
Discarded == <<"discarded">>

NoMembers == <<>>

is_object(j) == j[1] = "object"
is_array(j) == j[1] = "array"
is_string(j) == j[1] = "string"
is_boolean(j) == j[1] = "boolean"
is_number_integer(j) == j[1] = "int"
is_number(j) == j[1] \in {"int", "float"}
is_discarded(j) == j[1] = "discarded"

\* json::contains(key) is false on everything that is not an object.
contains(j, name) == is_object(j) /\ name \in DOMAIN j[2]

at(j, name) == j[2][name]

\* get<double>() of a number, in tenths.
get_double(j) == IF j[1] = "int" THEN j[2] * 10 ELSE j[2]

\* The input string of an entry point: either the text of a JSON value,
\* held as that value, or text that is not JSON, held as the text.
JsonText(j) == <<"json", j>>
Garbage(text) == <<"garbage", text>>

Parse(s) == IF s[1] = "json" THEN s[2] ELSE Discarded

(***************************************************************************)
(* util::ReadContext, the base class of JsonReader                         *)
(***************************************************************************)

\* The element of a one-element set.  Only({e : x \in {v}}) is e with x
\* naming the value v: the way a statement sequence `x = v; ... e` is written
\* so that v is computed once.
Only(S) == CHOOSE x \in S : TRUE

OkStatus == [code |-> "Ok", msg |-> <<>>]

ok(st) == st.code = "Ok"

\* Status::Update as used by ReadContext::Fail: the first failure is kept.
Fail(st, message) ==
    IF ok(st) THEN [code |-> "reader", msg |-> message] ELSE st

\* ReadContext::set_status assigns.
set_status(st, new) == new

(***************************************************************************)
(* JsonReader                                                              *)
(***************************************************************************)

RequireString(st, name, json_object) ==
    IF contains(json_object, name) /\ is_string(at(json_object, name))
    THEN [st |-> st, v |-> at(json_object, name)[2]]
    ELSE [st |-> Fail(st, <<"'%s' is missing or is not a string", name>>),
          v |-> ""]

RequireArray(st, name, json_object) ==
    IF contains(json_object, name) /\ is_array(at(json_object, name))
    THEN [st |-> st, v |-> at(json_object, name)[2]]
    ELSE [st |-> Fail(st, <<"'%s' is missing or is not a string", name>>),
          v |-> <<>>]

\* OptionalBool answering true for every member that is present.
OptionalBool_PresentIsTrue(name, json_object) == contains(json_object, name)

OptionalBool(name, json_object) ==
    /\ contains(json_object, name)
    /\ is_boolean(at(json_object, name))
    /\ at(json_object, name)[2]

Require(st, child_name, json_object) ==
    IF ~contains(json_object, child_name)
    THEN [st |-> Fail(st, <<"Missing child '%s'", child_name>>),
          v |-> json_object]
    ELSE [st |-> st, v |-> at(json_object, child_name)]

RequireDouble(st, name, json_object) ==
    IF contains(json_object, name) /\ is_number(at(json_object, name))
    THEN [st |-> st, v |-> get_double(at(json_object, name))]
    ELSE IF contains(json_object, name) /\ is_string(at(json_object, name))
    THEN LET s == at(json_object, name)[2]
             parsed == SimpleAtod(s)
         IN  [st |-> IF parsed.ok THEN st
                     ELSE Fail(st, <<"Failed to parse into double: ", s>>),
              v |-> parsed.v]
    ELSE [st |-> Fail(st, <<"'%s' is missing or is not a double", name>>),
          v |-> 0]

RequireInt(st, name, json_object, int_type) ==
    IF contains(json_object, name) /\ is_number_integer(at(json_object, name))
    THEN [st |-> st, v |-> at(json_object, name)[2]]
    ELSE IF contains(json_object, name) /\ is_string(at(json_object, name))
    THEN LET s == at(json_object, name)[2]
             parsed == SimpleAtoi(s, int_type)
         IN  [st |-> IF parsed.ok THEN st
                     ELSE Fail(st, <<"Failed to parse into integer: ", s>>),
              v |-> parsed.v]
    ELSE [st |-> Fail(st, <<"'%s' is missing or is not a double", name>>),
          v |-> 0]

(***************************************************************************)
(* Collaborators: model::ResourcePath, model::FieldPath, remote::Serializer *)
(* and TimestampInternal                                                   *)
(***************************************************************************)

\* The identity the serializer was constructed with (rpc_serializer_).
ProjectId == "p"
DatabaseId == "d"

\* Number of leading segments of a resource name that name the database:
\* projects/{p}/databases/{d}/documents.
HeaderLen == 5

LocalHeader == <<"projects", ProjectId, "databases", DatabaseId, "documents">>

\* ResourcePath::FromString: the segments between the slashes.
FromString(s) == NonEmptyPieces(StrSplit(s, "/"))

CanonicalString(p) == StrJoin(p, "/")

PopFirst(p, n) == SubSeq(p, n + 1, Len(p))

ResourcePath_Append(p, segment) == Append(p, segment)

EmptyResourcePath == <<>>

\* Serializer::IsLocalResourceName: the leading segments are those of the
\* configured project and database.
IsLocalResourceName(p) ==
    /\ Len(p) >= HeaderLen
    /\ SubSeq(p, 1, HeaderLen) = LocalHeader

\* What DocumentKey assumes of the path it is constructed from: the path
\* of a document, that is a non-empty path of collection id, document id
\* pairs.
ValidKeyPath(p) == Len(p) > 0 /\ Len(p) % 2 = 0

EmptyFieldPath == <<>>

\* FieldPath::FromServerFormat: the dot-separated segments; a string with
\* an empty segment (the empty string included) is rejected with a status.
FromServerFormat(s) ==
    LET pieces == StrSplit(s, ".")
    IN  IF \E i \in 1..Len(pieces) : IsEmptyString(pieces[i])
        THEN [ok |-> FALSE,
              status |-> [code |-> "field_path",
                          msg |-> <<"Invalid field path (%s)", s>>],
              v |-> EmptyFieldPath]
        ELSE [ok |-> TRUE, status |-> OkStatus, v |-> pieces]

MaxNanos == 999999999

DefaultTimestamp == <<0, 0>>

\* TimestampInternal::FromUntrustedSecondsAndNanos.  Every seconds value of
\* the model lies inside the range a Timestamp accepts, so the range check
\* that can fail here is the one on nanos.
FromUntrustedSecondsAndNanos(seconds, nanos) ==
    IF nanos < 0 \/ nanos > MaxNanos
    THEN [ok |-> FALSE,
          status |-> [code |-> "timestamp",
                      msg |-> <<"Timestamp nanoseconds out of range">>],
          v |-> DefaultTimestamp]
    ELSE [ok |-> TRUE, status |-> OkStatus, v |-> <<seconds, nanos>>]

\* absl::ParseTime(RFC3339_full, ...) on the time strings of the model.
RFC3339Times ==
    "1970-01-01T00:00:01Z" :> <<1, 0>> @@
    "1970-01-01T00:00:02.5Z" :> <<2, 500000000>>

ParseTime(s) ==
    IF s \in DOMAIN RFC3339Times
    THEN [ok |-> TRUE, time |-> RFC3339Times[s], err |-> ""]
    ELSE [ok |-> FALSE, time |-> DefaultTimestamp,
          err |-> "Failed to parse input"]

FromUntrustedTime(time) == FromUntrustedSecondsAndNanos(time[1], time[2])

\* absl::Base64Unescape on the strings of the model.
Base64Texts == "YQ==" :> "a" @@ "YWI=" :> "ab"

Base64Unescape(s) ==
    IF IsEmptyString(s) THEN [ok |-> TRUE, v |-> ""]
    ELSE IF s \in DOMAIN Base64Texts THEN [ok |-> TRUE, v |-> Base64Texts[s]]
    ELSE [ok |-> FALSE, v |-> ""]

(***************************************************************************)
(* model::FieldValue and the core query types                              *)
(***************************************************************************)

NullValue == <<"null">>
FromBoolean(b) == <<"boolean", b>>
FromInteger(n) == <<"integer", n>>
FromDouble(tenths) == <<"double", "num", tenths>>
Nan == <<"double", "nan", 0>>
FromTimestamp(ts) == <<"timestamp", ts>>
FromStringValue(s) == <<"string", s>>
FromBlob(bytes) == <<"blob", bytes>>
FromReference(documentPath) == <<"reference", documentPath>>
FromGeoPoint(latitude, longitude) == <<"geo_point", <<latitude, longitude>>>>
FromArray(values) == <<"array", values>>
FromMap(fields) == <<"map", fields>>

FieldFilter_Create(fieldPath, op, value) ==
    [field |-> fieldPath, op |-> op, value |-> value]

OrderBy(fieldPath, direction) == [field |-> fieldPath, dir |-> direction]

Bound(position, before) == [position |-> position, before |-> before]

\* Target::kNoLimit, the largest int32.
kNoLimit == 2147483647

NoGroup == <<"none">>
SomeGroup(id) == <<"group", id>>

NoBound == <<"none">>
SomeBound(b) == <<"bound", b>>

Target(p, collection_group, filters, order_bys, limit, start_at, end_at) ==
    [path |-> p, collection_group |-> collection_group, filters |-> filters,
     order_bys |-> order_bys, limit |-> limit,
     start_at |-> start_at, end_at |-> end_at]

BundledQuery(target, limit_type) ==
    [target |-> target, limit_type |-> limit_type]

\* BundledQuery(): a default Target and no limit type.
DefaultBundledQuery ==
    BundledQuery(Target(EmptyResourcePath, NoGroup, <<>>, <<>>, kNoLimit,
                        NoBound, NoBound),
                 "None")

(***************************************************************************)
(* The free functions of bundle_serializer.cc.  Each takes the reader's    *)
(* status and returns the status it leaves together with its value.        *)
(***************************************************************************)

\* DecodeTimestamp passing decoded.status() to set_status without asking
\* decoded.ok() first: a timestamp that is accepted resets the status.
DecodeTimestamp_SetsStatusAlways(st, version) ==
    IF is_string(version)
    THEN LET parsed == ParseTime(version[2])
             decoded == FromUntrustedTime(parsed.time)
         IN  IF ~parsed.ok
             THEN [st |-> Fail(st, <<"Parsing timestamp failed with error: ",
                                     parsed.err>>),
                   v |-> DefaultTimestamp]
             ELSE [st |-> set_status(st, decoded.status), v |-> decoded.v]
    ELSE LET r1 == RequireInt(st, "seconds", version, "int64_t")
             r2 == RequireInt(r1.st, "nanos", version, "int32_t")
             decoded == FromUntrustedSecondsAndNanos(r1.v, r2.v)
         IN  [st |-> set_status(r2.st, decoded.status), v |-> decoded.v]

\* The two arguments of FromUntrustedSecondsAndNanos both call RequireInt,
\* and C++ leaves their order to the compiler: evalOrder is the order the
\* build evaluates function arguments in.
DecodeTimestamp(st, version) ==
    IF is_string(version)
    THEN LET parsed == ParseTime(version[2])
             decoded == FromUntrustedTime(parsed.time)
         IN  IF ~parsed.ok
             THEN [st |-> Fail(st, <<"Parsing timestamp failed with error: ",
                                     parsed.err>>),
                   v |-> DefaultTimestamp]
             ELSE IF ~decoded.ok
             THEN [st |-> set_status(st, decoded.status),
                   v |-> DefaultTimestamp]
             ELSE [st |-> st, v |-> decoded.v]
    ELSE LET first == IF evalOrder = "ltr" THEN "seconds" ELSE "nanos"
             second == IF evalOrder = "ltr" THEN "nanos" ELSE "seconds"
         IN  Only({ Only({
                 LET seconds == IF evalOrder = "ltr" THEN r1.v ELSE r2.v
                     nanos == IF evalOrder = "ltr" THEN r2.v ELSE r1.v
                     decoded == FromUntrustedSecondsAndNanos(seconds, nanos)
                 IN  IF ~decoded.ok
                     THEN [st |-> set_status(r2.st, decoded.status),
                           v |-> DefaultTimestamp]
                     ELSE [st |-> r2.st, v |-> decoded.v]
                 : r2 \in {RequireInt(r1.st, second, version,
                                      IF evalOrder = "ltr" THEN "int32_t"
                                      ELSE "int64_t")} })
                 : r1 \in {RequireInt(st, first, version,
                                      IF evalOrder = "ltr" THEN "int64_t"
                                      ELSE "int32_t")} })

DecodeSnapshotVersion(st, version) == DecodeTimestamp(st, version)

\* VerifyStructuredQuery without the check for `offset`.
VerifyStructuredQuery_AllowsOffset(st, query) ==
    IF ~is_object(query)
    THEN Fail(st, <<"'structuredQuery' is not an object as expected.">>)
    ELSE IF contains(query, "select")
    THEN Fail(st, <<"Queries with 'select' statements are not supported in bundles">>)
    ELSE IF ~contains(query, "from")
    THEN Fail(st, <<"Query does not have a 'from' collection">>)
    ELSE st

VerifyStructuredQuery(st, query) ==
    IF ~is_object(query)
    THEN Fail(st, <<"'structuredQuery' is not an object as expected.">>)
    ELSE IF contains(query, "select")
    THEN Fail(st, <<"Queries with 'select' statements are not supported in bundles">>)
    ELSE IF ~contains(query, "from")
    THEN Fail(st, <<"Query does not have a 'from' collection">>)
    ELSE IF contains(query, "offset")
    THEN Fail(st, <<"Queries with 'offset' are not supported in bundles">>)
    ELSE st

\* DecodeCollectionSource appending the collection id to the parent also
\* when the selector asks for all descendants.
DecodeCollectionSource_AlwaysAppends(st, from_json, parent, group) ==
    IF ~is_array(from_json)
    THEN [st |-> st, parent |-> parent, group |-> group, thrown |-> TRUE]
    ELSE IF Len(from_json[2]) # 1
    THEN [st |-> Fail(st, <<"Only queries with a single 'from' clause are supported by the SDK">>),
          parent |-> parent, group |-> group, thrown |-> FALSE]
    ELSE LET collection_id == RequireString(st, "collectionId", from_json[2][1])
         IN  [st |-> collection_id.st,
              parent |-> ResourcePath_Append(parent, collection_id.v),
              group |-> IF OptionalBool("allDescendants", from_json[2][1])
                        THEN collection_id.v ELSE group,
              thrown |-> FALSE]

\* get_ref<const std::vector<json>&>() on a json that is not an array
\* throws json::type_error: thrown is that non-local exit.
DecodeCollectionSource(st, from_json, parent, group) ==
    IF ~is_array(from_json)
    THEN [st |-> st, parent |-> parent, group |-> group, thrown |-> TRUE]
    ELSE IF Len(from_json[2]) # 1
    THEN [st |-> Fail(st, <<"Only queries with a single 'from' clause are supported by the SDK">>),
          parent |-> parent, group |-> group, thrown |-> FALSE]
    ELSE LET collection_selector == from_json[2][1]
             collection_id == RequireString(st, "collectionId",
                                            collection_selector)
             all_descendants == OptionalBool("allDescendants",
                                             collection_selector)
         IN  IF all_descendants
             THEN [st |-> collection_id.st, parent |-> parent,
                   group |-> collection_id.v, thrown |-> FALSE]
             ELSE [st |-> collection_id.st,
                   parent |-> ResourcePath_Append(parent, collection_id.v),
                   group |-> group, thrown |-> FALSE]

DecodeFieldReference(st, field) ==
    IF ~is_object(field)
    THEN [st |-> Fail(st, <<"'field' should be an json object, but it is not">>),
          v |-> EmptyFieldPath]
    ELSE LET field_path == RequireString(st, "fieldPath", field)
             res == FromServerFormat(field_path.v)
         IN  IF ~res.ok
             THEN [st |-> set_status(field_path.st, res.status),
                   v |-> EmptyFieldPath]
             ELSE [st |-> field_path.st, v |-> res.v]

FieldFilterOperators ==
    "LESS_THAN" :> "LessThan" @@
    "LESS_THAN_OR_EQUAL" :> "LessThanOrEqual" @@
    "EQUAL" :> "Equal" @@
    "NOT_EQUAL" :> "NotEqual" @@
    "GREATER_THAN" :> "GreaterThan" @@
    "GREATER_THAN_OR_EQUAL" :> "GreaterThanOrEqual" @@
    "ARRAY_CONTAINS" :> "ArrayContains" @@
    "IN" :> "In" @@
    "ARRAY_CONTAINS_ANY" :> "ArrayContainsAny" @@
    "NOT_IN" :> "NotIn"

DecodeFieldFilterOperator(st, op) ==
    IF op \in DOMAIN FieldFilterOperators
    THEN [st |-> st, v |-> FieldFilterOperators[op]]
    ELSE [st |-> Fail(st, <<"Operator in filter is not valid: ", op>>),
          v |-> "Equal"]

\* FieldFilter::Create({}, {}, {}): the placeholder filter.
InvalidFilter == FieldFilter_Create(EmptyFieldPath, "Equal", NullValue)

\* DecodeUnaryFilter returning the placeholder for an operator it does not
\* know without recording a failure.
DecodeUnaryFilter_NoFailure(st, filter) ==
    Only({ Only({ Only({
        IF ~ok(op.st) THEN [st |-> op.st, v |-> InvalidFilter]
        ELSE IF op.v = "IS_NAN"
        THEN [st |-> op.st, v |-> FieldFilter_Create(fieldPath.v, "Equal", Nan)]
        ELSE IF op.v = "IS_NULL"
        THEN [st |-> op.st,
              v |-> FieldFilter_Create(fieldPath.v, "Equal", NullValue)]
        ELSE IF op.v = "IS_NOT_NAN"
        THEN [st |-> op.st,
              v |-> FieldFilter_Create(fieldPath.v, "NotEqual", Nan)]
        ELSE IF op.v = "IS_NOT_NULL"
        THEN [st |-> op.st,
              v |-> FieldFilter_Create(fieldPath.v, "NotEqual", NullValue)]
        ELSE [st |-> op.st, v |-> InvalidFilter]
        : op \in {RequireString(fieldPath.st, "op", filter)} })
        : fieldPath \in {DecodeFieldReference(field.st, field.v)} })
        : field \in {Require(st, "field", filter)} })

DecodeUnaryFilter(st, filter) ==
    Only({ Only({ Only({
        IF ~ok(op.st) THEN [st |-> op.st, v |-> InvalidFilter]
        ELSE IF op.v = "IS_NAN"
        THEN [st |-> op.st, v |-> FieldFilter_Create(fieldPath.v, "Equal", Nan)]
        ELSE IF op.v = "IS_NULL"
        THEN [st |-> op.st,
              v |-> FieldFilter_Create(fieldPath.v, "Equal", NullValue)]
        ELSE IF op.v = "IS_NOT_NAN"
        THEN [st |-> op.st,
              v |-> FieldFilter_Create(fieldPath.v, "NotEqual", Nan)]
        ELSE IF op.v = "IS_NOT_NULL"
        THEN [st |-> op.st,
              v |-> FieldFilter_Create(fieldPath.v, "NotEqual", NullValue)]
        ELSE [st |-> Fail(op.st, <<"Unexpected unary filter operator: ", op.v>>),
              v |-> InvalidFilter]
        : op \in {RequireString(fieldPath.st, "op", filter)} })
        : fieldPath \in {DecodeFieldReference(field.st, field.v)} })
        : field \in {Require(st, "field", filter)} })

\* The loop of DecodeOrderBy from entry i on, res being the list so far.
RECURSIVE OrderByLoop(_, _, _, _)
OrderByLoop(st, entries, i, res) ==
    IF i > Len(entries) THEN [st |-> st, v |-> res]
    ELSE LET order_by == entries[i]
         IN  Only({ Only({ Only({
             IF direction_string.v # "DESCENDING"
                /\ direction_string.v # "ASCENDING"
             THEN [st |-> Fail(direction_string.st,
                               <<"'direction' value is invalid: ",
                                 direction_string.v>>),
                   v |-> <<>>]
             ELSE OrderByLoop(direction_string.st, entries, i + 1,
                              Append(res,
                                     OrderBy(fieldPath.v,
                                             IF direction_string.v = "ASCENDING"
                                             THEN "Ascending"
                                             ELSE "Descending")))
             : direction_string \in
                 {IF contains(order_by, "direction")
                  THEN RequireString(fieldPath.st, "direction", order_by)
                  ELSE [st |-> fieldPath.st, v |-> "ASCENDING"]} })
             : fieldPath \in {DecodeFieldReference(field.st, field.v)} })
             : field \in {Require(st, "field", order_by)} })

DecodeOrderBy(st, query) ==
    Only({ OrderByLoop(entries.st, entries.v, 1, <<>>)
           : entries \in {RequireArray(st, "orderBy", query)} })

DecodeLimit(st, query) ==
    IF contains(query, "limit")
    THEN IF ~is_number_integer(at(query, "limit"))
         THEN [st |-> Fail(st, <<"'limit' is not encoded as a valid integer">>),
               v |-> kNoLimit]
         ELSE [st |-> st, v |-> at(query, "limit")[2]]
    ELSE [st |-> st, v |-> kNoLimit]

DecodeLimitType(st, query) ==
    LET limit_type == IF contains(query, "limitType")
                      THEN RequireString(st, "limitType", query)
                      ELSE [st |-> st, v |-> "FIRST"]
    IN  IF limit_type.v = "FIRST" THEN [st |-> limit_type.st, v |-> "First"]
        ELSE IF limit_type.v = "LAST" THEN [st |-> limit_type.st, v |-> "Last"]
        ELSE [st |-> Fail(limit_type.st,
                          <<"'limitType' is not encoded as a recognizable value">>),
              v |-> "None"]

DecodeGeoPointValue(st, geo_json) ==
    Only({ Only({
        [st |-> longitude.st, v |-> FromGeoPoint(latitude.v, longitude.v)]
        : longitude \in {IF contains(geo_json, "longitude")
                         THEN RequireDouble(latitude.st, "longitude", geo_json)
                         ELSE [st |-> latitude.st, v |-> 0]} })
        : latitude \in {IF contains(geo_json, "latitude")
                        THEN RequireDouble(st, "latitude", geo_json)
                        ELSE [st |-> st, v |-> 0]} })

\* DecodeBytesValue returning the decoded bytes as a string value.
DecodeBytesValue_AsString(st, bytes_string) ==
    LET decoded == Base64Unescape(bytes_string)
    IN  IF ~decoded.ok
        THEN [st |-> Fail(st, <<"Failed to decode bytesValue string into binary form">>),
              v |-> NullValue]
        ELSE [st |-> st, v |-> FromStringValue(decoded.v)]

DecodeBytesValue(st, bytes_string) ==
    LET decoded == Base64Unescape(bytes_string)
    IN  IF ~decoded.ok
        THEN [st |-> Fail(st, <<"Failed to decode bytesValue string into binary form">>),
              v |-> NullValue]
        ELSE [st |-> st, v |-> FromBlob(decoded.v)]

(***************************************************************************)
(* Iteration order of a json object: nlohmann::json keeps the members of   *)
(* an object in a std::map, so begin()..end() visits the keys in byte      *)
(* order.                                                                  *)
(***************************************************************************)

ByteOrder ==
    "0123456789ABCDEFGHIJKLMNOPQRSTUVWXYZ_abcdefghijklmnopqrstuvwxyz"

CharRank(c) == CHOOSE i \in 1..Len(ByteOrder) : SubSeq(ByteOrder, i, i) = c

RECURSIVE StrLess(_, _, _)
StrLess(a, b, i) ==
    IF i > Len(b) THEN FALSE
    ELSE IF i > Len(a) THEN TRUE
    ELSE IF SubSeq(a, i, i) = SubSeq(b, i, i) THEN StrLess(a, b, i + 1)
    ELSE CharRank(SubSeq(a, i, i)) < CharRank(SubSeq(b, i, i))

RECURSIVE SortedKeys(_)
SortedKeys(keys) ==
    IF keys = {} THEN <<>>
    ELSE LET least == CHOOSE k \in keys :
                          \A o \in keys \ {k} : StrLess(k, o, 1)
         IN  <<least>> \o SortedKeys(keys \ {least})

(***************************************************************************)
(* BundleSerializer: the value decoder and the path resolver               *)
(***************************************************************************)

\* DecodeName stripping the project and database segments but not the
\* `documents` segment.
DecodeName_PopsFour(st, document_name) ==
    IF ~is_string(document_name)
    THEN [st |-> Fail(st, <<"Document name is not a string.">>),
          v |-> EmptyResourcePath]
    ELSE LET p == FromString(document_name[2])
         IN  IF ~IsLocalResourceName(p)
             THEN [st |-> Fail(st, <<"Resource name is not valid for current instance: ",
                                     CanonicalString(p)>>),
                   v |-> EmptyResourcePath]
             ELSE [st |-> st, v |-> PopFirst(p, 4)]

DecodeName(st, document_name) ==
    IF ~is_string(document_name)
    THEN [st |-> Fail(st, <<"Document name is not a string.">>),
          v |-> EmptyResourcePath]
    ELSE LET p == FromString(document_name[2])
         IN  IF ~IsLocalResourceName(p)
             THEN [st |-> Fail(st, <<"Resource name is not valid for current instance: ",
                                     CanonicalString(p)>>),
                   v |-> EmptyResourcePath]
             ELSE [st |-> st, v |-> PopFirst(p, HeaderLen)]

\* remote::Serializer::DecodeReference: the reference string passes the
\* identity check of a document name and becomes a reference value.
Serializer_DecodeReference(st, ref_string) ==
    LET p == FromString(ref_string)
    IN  IF ~IsLocalResourceName(p)
        THEN [st |-> Fail(st, <<"Resource name is not valid for current instance: ",
                                CanonicalString(p)>>),
              v |-> NullValue]
        ELSE [st |-> st, v |-> FromReference(PopFirst(p, HeaderLen))]

DecodeReferenceValue(st, ref_string) ==
    IF ~ok(st) THEN [st |-> st, v |-> NullValue]
    ELSE Serializer_DecodeReference(st, ref_string)

RECURSIVE DecodeValue(_, _)
RECURSIVE DecodeMapValue(_, _)
RECURSIVE DecodeArrayValue(_, _)
RECURSIVE DecodeValues(_, _, _, _)
RECURSIVE DecodeFields(_, _, _, _, _)

\* The element loop shared by DecodeArrayValue and DecodeBound: push_back
\* of DecodeValue of every element.
DecodeValues(st, values, i, acc) ==
    IF i > Len(values) THEN [st |-> st, v |-> acc]
    ELSE Only({ DecodeValues(d.st, values, i + 1, Append(acc, d.v))
                : d \in {DecodeValue(st, values[i])} })

\* The member loop of DecodeMapValue, over the keys in iteration order.
DecodeFields(st, fields, keys, i, acc) ==
    IF i > Len(keys) THEN [st |-> st, v |-> acc]
    ELSE Only({ DecodeFields(d.st, fields, keys, i + 1,
                             (keys[i] :> d.v) @@ acc)
                : d \in {DecodeValue(st, at(fields, keys[i]))} })

\* DecodeMapValue taking an object without `fields` as the field map
\* itself.
DecodeMapValue_FieldsOptional(st, map_json) ==
    IF ~is_object(map_json)
    THEN [st |-> Fail(st, <<"mapValue is not a valid map">>), v |-> NullValue]
    ELSE LET fields == IF contains(map_json, "fields")
                       THEN at(map_json, "fields") ELSE map_json
         IN  IF ~is_object(fields)
             THEN [st |-> Fail(st, <<"mapValue's 'field' is not a valid map">>),
                   v |-> NullValue]
             ELSE Only({
                 [st |-> field_values.st, v |-> FromMap(field_values.v)]
                 : field_values \in
                     {DecodeFields(st, fields, SortedKeys(DOMAIN fields[2]),
                                   1, NoMembers)} })

DecodeMapValue(st, map_json) ==
    IF ~is_object(map_json) \/ ~contains(map_json, "fields")
    THEN [st |-> Fail(st, <<"mapValue is not a valid map">>), v |-> NullValue]
    ELSE LET fields == at(map_json, "fields")
         IN  IF ~is_object(fields)
             THEN [st |-> Fail(st, <<"mapValue's 'field' is not a valid map">>),
                   v |-> NullValue]
             ELSE Only({
                 [st |-> field_values.st, v |-> FromMap(field_values.v)]
                 : field_values \in
                     {DecodeFields(st, fields, SortedKeys(DOMAIN fields[2]),
                                   1, NoMembers)} })

DecodeArrayValue(st, array_json) ==
    Only({ Only({
        IF ~ok(field_values.st)
        THEN [st |-> field_values.st, v |-> NullValue]
        ELSE [st |-> field_values.st, v |-> FromArray(field_values.v)]
        : field_values \in {DecodeValues(values.st, values.v, 1, <<>>)} })
        : values \in {RequireArray(st, "values", array_json)} })

\* DecodeValue testing `nullValue` after the other ten keys instead of
\* before them.
DecodeValue_NullValueLast(st, value) ==
    IF ~is_object(value)
    THEN [st |-> Fail(st, <<"'value' is not encoded as JSON object">>),
          v |-> NullValue]
    ELSE IF contains(value, "booleanValue")
    THEN LET val == at(value, "booleanValue")
         IN  IF ~is_boolean(val)
             THEN [st |-> Fail(st, <<"'booleanValue' is not encoded as a valid boolean">>),
                   v |-> NullValue]
             ELSE [st |-> st, v |-> FromBoolean(val[2])]
    ELSE IF contains(value, "integerValue")
    THEN Only({ [st |-> n.st, v |-> FromInteger(n.v)]
                : n \in {RequireInt(st, "integerValue", value, "int64_t")} })
    ELSE IF contains(value, "doubleValue")
    THEN Only({ [st |-> d.st, v |-> FromDouble(d.v)]
                : d \in {RequireDouble(st, "doubleValue", value)} })
    ELSE IF contains(value, "timestampValue")
    THEN Only({ [st |-> val.st, v |-> FromTimestamp(val.v)]
                : val \in {DecodeTimestamp(st, at(value, "timestampValue"))} })
    ELSE IF contains(value, "stringValue")
    THEN Only({ [st |-> val.st, v |-> FromStringValue(val.v)]
                : val \in {RequireString(st, "stringValue", value)} })
    ELSE IF contains(value, "bytesValue")
    THEN Only({ DecodeBytesValue(s.st, s.v)
                : s \in {RequireString(st, "bytesValue", value)} })
    ELSE IF contains(value, "referenceValue")
    THEN Only({ DecodeReferenceValue(s.st, s.v)
                : s \in {RequireString(st, "referenceValue", value)} })
    ELSE IF contains(value, "geoPointValue")
    THEN DecodeGeoPointValue(st, at(value, "geoPointValue"))
    ELSE IF contains(value, "arrayValue")
    THEN DecodeArrayValue(st, at(value, "arrayValue"))
    ELSE IF contains(value, "mapValue")
    THEN DecodeMapValue(st, at(value, "mapValue"))
    ELSE IF contains(value, "nullValue")
    THEN [st |-> st, v |-> NullValue]
    ELSE [st |-> Fail(st, <<"Failed to decode value, no type is recognized">>),
          v |-> NullValue]

DecodeValue(st, value) ==
    IF ~is_object(value)
    THEN [st |-> Fail(st, <<"'value' is not encoded as JSON object">>),
          v |-> NullValue]
    ELSE IF contains(value, "nullValue")
    THEN [st |-> st, v |-> NullValue]
    ELSE IF contains(value, "booleanValue")
    THEN LET val == at(value, "booleanValue")
         IN  IF ~is_boolean(val)
             THEN [st |-> Fail(st, <<"'booleanValue' is not encoded as a valid boolean">>),
                   v |-> NullValue]
             ELSE [st |-> st, v |-> FromBoolean(val[2])]
    ELSE IF contains(value, "integerValue")
    THEN Only({ [st |-> n.st, v |-> FromInteger(n.v)]
                : n \in {RequireInt(st, "integerValue", value, "int64_t")} })
    ELSE IF contains(value, "doubleValue")
    THEN Only({ [st |-> d.st, v |-> FromDouble(d.v)]
                : d \in {RequireDouble(st, "doubleValue", value)} })
    ELSE IF contains(value, "timestampValue")
    THEN Only({ [st |-> val.st, v |-> FromTimestamp(val.v)]
                : val \in {DecodeTimestamp(st, at(value, "timestampValue"))} })
    ELSE IF contains(value, "stringValue")
    THEN Only({ [st |-> val.st, v |-> FromStringValue(val.v)]
                : val \in {RequireString(st, "stringValue", value)} })
    ELSE IF contains(value, "bytesValue")
    THEN Only({ DecodeBytesValue(s.st, s.v)
                : s \in {RequireString(st, "bytesValue", value)} })
    ELSE IF contains(value, "referenceValue")
    THEN Only({ DecodeReferenceValue(s.st, s.v)
                : s \in {RequireString(st, "referenceValue", value)} })
    ELSE IF contains(value, "geoPointValue")
    THEN DecodeGeoPointValue(st, at(value, "geoPointValue"))
    ELSE IF contains(value, "arrayValue")
    THEN DecodeArrayValue(st, at(value, "arrayValue"))
    ELSE IF contains(value, "mapValue")
    THEN DecodeMapValue(st, at(value, "mapValue"))
    ELSE [st |-> Fail(st, <<"Failed to decode value, no type is recognized">>),
          v |-> NullValue]

(***************************************************************************)
(* BundleSerializer: filters and bounds                                    *)
(***************************************************************************)

DecodeFieldFilter(st, filter) ==
    Only({ Only({ Only({ Only({ Only({ Only({
        IF ~ok(value.st) THEN [st |-> value.st, v |-> InvalidFilter]
        ELSE [st |-> value.st,
              v |-> FieldFilter_Create(fieldPath.v, op.v, value.v)]
        : value \in {DecodeValue(value_json.st, value_json.v)} })
        : value_json \in {Require(op.st, "value", filter)} })
        : op \in {DecodeFieldFilterOperator(op_string.st, op_string.v)} })
        : op_string \in {RequireString(fieldPath.st, "op", filter)} })
        : fieldPath \in {DecodeFieldReference(field.st, field.v)} })
        : field \in {Require(st, "field", filter)} })

\* The loop of DecodeCompositeFilter without its return on a reader that
\* is not ok: the placeholder of a failed child stays in the list.
RECURSIVE CompositeLoop_KeepsGoing(_, _, _, _)
CompositeLoop_KeepsGoing(st, filters, i, res) ==
    IF i > Len(filters) THEN [st |-> st, v |-> res]
    ELSE LET child == Require(st, "fieldFilter", filters[i])
             f == DecodeFieldFilter(child.st, child.v)
         IN  CompositeLoop_KeepsGoing(f.st, filters, i + 1, Append(res, f.v))

\* The loop of DecodeCompositeFilter from child i on.
RECURSIVE CompositeLoop(_, _, _, _)
CompositeLoop(st, filters, i, res) ==
    IF i > Len(filters) THEN [st |-> st, v |-> res]
    ELSE Only({ Only({
             IF ~ok(f.st) THEN [st |-> f.st, v |-> <<>>]
             ELSE CompositeLoop(f.st, filters, i + 1, Append(res, f.v))
             : f \in {DecodeFieldFilter(child.st, child.v)} })
             : child \in {Require(st, "fieldFilter", filters[i])} })

DecodeCompositeFilter(st, filter) ==
    Only({
        IF op.v # "AND"
        THEN [st |-> Fail(op.st, <<"The SDK only supports composite filters of type 'AND'">>),
              v |-> <<>>]
        ELSE Only({ CompositeLoop(filters.st, filters.v, 1, <<>>)
                    : filters \in {RequireArray(op.st, "filters", filter)} })
        : op \in {RequireString(st, "op", filter)} })

DecodeWhere(st, query) ==
    IF ~contains(query, "where") THEN [st |-> st, v |-> <<>>]
    ELSE LET where == at(query, "where")
         IN  IF ~is_object(where)
             THEN [st |-> Fail(st, <<"Query's 'where' clause is not a json object.">>),
                   v |-> <<>>]
             ELSE IF contains(where, "compositeFilter")
             THEN DecodeCompositeFilter(st, at(where, "compositeFilter"))
             ELSE IF contains(where, "fieldFilter")
             THEN Only({ [st |-> f.st, v |-> <<f.v>>]
                         : f \in {DecodeFieldFilter(st, at(where, "fieldFilter"))} })
             ELSE IF contains(where, "unaryFilter")
             THEN Only({ [st |-> f.st, v |-> <<f.v>>]
                         : f \in {DecodeUnaryFilter(st, at(where, "unaryFilter"))} })
             ELSE [st |-> Fail(st, <<"'where' does not have valid filter">>),
                   v |-> <<>>]

DecodeBound(st, query, bound_name) ==
    IF ~contains(query, bound_name)
    THEN [st |-> st, v |-> Bound(<<>>, FALSE)]
    ELSE Only({ Only({ Only({
             [st |-> positions.st,
              v |-> Bound(positions.v, OptionalBool("before", bound_json.v))]
             : positions \in {DecodeValues(values.st, values.v, 1, <<>>)} })
             : values \in {RequireArray(bound_json.st, "values", bound_json.v)} })
             : bound_json \in {Require(st, bound_name, query)} })

(***************************************************************************)
(* Inputs.  The input strings a decode is started on are put together from *)
(* well-formed and ill-formed pieces; the bounds limit the length of the   *)
(* arrays and the number of fields.                                        *)
(***************************************************************************)

MaxFrom == 2
MaxFilters == 2
MaxOrderBy == 2
MaxQueries == 2
MaxFields == 2

Absent == <<"absent">>

\* The member name :> v, or no member when v is Absent.
Opt(name, v) == IF v = Absent THEN NoMembers ELSE name :> v

SeqsUpTo(S, n) == UNION {[1..k -> S] : k \in 0..n}

ArraysUpTo(S, n) == {JArr(elems) : elems \in SeqsUpTo(S, n)}

ValidTimestamps ==
    { JObj("seconds" :> JInt(1) @@ "nanos" :> JInt(0)),
      JObj("seconds" :> JStr("2") @@ "nanos" :> JInt(5)),
      JStr("1970-01-01T00:00:02.5Z") }

InvalidTimestamps ==
    { JObj("seconds" :> JInt(1) @@ "nanos" :> JInt(1000000000)),
      JObj("nanos" :> JInt(0)),
      JObj("seconds" :> JStr("x") @@ "nanos" :> JInt(0 - 1)),
      JStr("yesterday"),
      JInt(5) }

Timestamps == ValidTimestamps \cup InvalidTimestamps

DocumentNames ==
    { JStr("projects/p/databases/d/documents/c/d1"),
      JStr("projects/p/databases/d/documents/c/d1/e/d2") }

OtherNames ==
    { JStr("projects/p/databases/d/documents"),
      JStr("projects/p/databases/d/documents/c"),
      JStr("/projects/q/databases/d/documents//c/d1"),
      JStr("projects/p/databases/d/docs/c/d1"),
      JStr("projects/p"),
      JInt(7) }

Names == DocumentNames \cup OtherNames

\* Values: well-formed ones of every type, and ill-formed ones.
ScalarValues ==
    { JObj("nullValue" :> JNull),
      JObj("booleanValue" :> JBool(TRUE)),
      JObj("integerValue" :> JStr("42")),
      JObj("integerValue" :> JInt(42)),
      JObj("doubleValue" :> JStr("1.5")),
      JObj("timestampValue" :> JStr("1970-01-01T00:00:01Z")),
      JObj("stringValue" :> JStr("x")),
      JObj("bytesValue" :> JStr("YQ==")),
      JObj("referenceValue" :> JStr("projects/p/databases/d/documents/c/d1")),
      JObj("geoPointValue" :> JObj("latitude" :> JFloat(15))) }

BadValues ==
    { JStr("x"),
      JObj(NoMembers),
      JObj("booleanValue" :> JStr("no")),
      JObj("integerValue" :> JStr("4x")),
      JObj("timestampValue" :> JObj("seconds" :> JInt(1)
                                    @@ "nanos" :> JInt(0 - 1))),
      JObj("bytesValue" :> JStr("?")),
      JObj("referenceValue" :> JStr("projects/q/databases/d/documents/c/d1")),
      JObj("mapValue" :> JObj("a" :> JObj("stringValue" :> JStr("x")))) }

NestedValues ==
    { JObj("arrayValue" :> JObj("values" :> JArr(<<JObj("integerValue" :> JInt(1)),
                                                   JObj("stringValue" :> JStr("y"))>>))),
      JObj("mapValue" :> JObj("fields" :> JObj("a" :> JObj("stringValue" :> JStr("x"))))),
      JObj("mapValue" :> JObj("fields" :> JObj("a" :> JStr("x")))),
      JObj("stringValue" :> JStr("x") @@ "integerValue" :> JInt(1)) }

Values == ScalarValues \cup BadValues \cup NestedValues

FieldNames == {"a", "b", "c"}

DocumentFieldValues ==
    { JObj("stringValue" :> JStr("x")),
      JObj("integerValue" :> JStr("42")),
      JObj("nullValue" :> JNull),
      JObj("referenceValue" :> JStr("projects/p/databases/d/documents/c/d1")),
      JObj("arrayValue" :> JObj("values" :> JArr(<<JObj("integerValue" :> JInt(1))>>))),
      JObj("mapValue" :> JObj("fields" :> JObj("a" :> JObj("stringValue" :> JStr("x"))))),
      JObj("mapValue" :> JObj("a" :> JObj("stringValue" :> JStr("x")))),
      JObj("integerValue" :> JStr("4x")),
      JStr("x") }

FieldMaps ==
    UNION {[K -> DocumentFieldValues] :
              K \in {K \in SUBSET FieldNames : Cardinality(K) <= MaxFields}}

\* The members that hold a document's fields: under a `fields` key, or
\* directly next to `name` and `updateTime`.
WrappedFields(m) == "fields" :> JObj(m)
TopLevelFields(m) == m

FieldLayouts ==
    {WrappedFields(m) : m \in FieldMaps} \cup
    {TopLevelFields(m) : m \in FieldMaps} \cup
    {"fields" :> JStr("x")}

FewFieldLayouts ==
    { WrappedFields("a" :> JObj("stringValue" :> JStr("x"))),
      TopLevelFields("a" :> JObj("stringValue" :> JStr("x"))),
      WrappedFields("a" :> JStr("x")) }

NotAnObject == { Garbage("{oops"), JsonText(JArr(<<>>)), JsonText(JStr("x")) }

DocumentInputs ==
    {JsonText(JObj(Opt("name", n) @@ Opt("updateTime", t) @@ layout)) :
        n \in Names \cup {Absent},
        t \in Timestamps \cup {Absent},
        layout \in FewFieldLayouts} \cup
    {JsonText(JObj(Opt("name", n) @@ Opt("updateTime", t) @@ layout)) :
        n \in DocumentNames,
        t \in {JObj("seconds" :> JInt(1) @@ "nanos" :> JInt(0))},
        layout \in FieldLayouts} \cup
    NotAnObject

QueryNames == {JStr("q1"), JStr("q2"), JInt(7)}

DocumentMetadataInputs ==
    {JsonText(JObj(Opt("name", n) @@ Opt("readTime", t)
                   @@ "exists" :> JBool(TRUE)
                   @@ "queries" :> JArr(<<JStr("q1")>>))) :
        n \in Names \cup {Absent},
        t \in Timestamps \cup {Absent}} \cup
    {JsonText(JObj(Opt("name", n) @@ Opt("readTime", t)
                   @@ Opt("exists", e) @@ Opt("queries", q))) :
        n \in DocumentNames,
        t \in Timestamps \cup {Absent},
        e \in {Absent, JBool(TRUE), JBool(FALSE), JStr("yes")},
        q \in ArraysUpTo(QueryNames, MaxQueries) \cup {Absent, JStr("q1")}} \cup
    NotAnObject

(***************************************************************************)
(* State                                                                   *)
(*   entry      the entry point that was called                            *)
(*   input      its input string                                           *)
(*   evalOrder  the order the build evaluates function arguments in        *)
(*   pc         the statement the call is at; "returned" after its return, *)
(*              "thrown" and "aborted" after a non-local exit              *)
(*   status     the status of the JsonReader                               *)
(*   todo       the constructor arguments still to be evaluated            *)
(*   locals     the local variables assigned so far                        *)
(*   key        the path a DocumentKey was constructed from, if any        *)
(*   result     the record returned to the caller                          *)
(***************************************************************************)

NoKey == <<"none">>
DocumentKey(p) == <<"key", p>>

NoResult == <<"none">>
Returned(record) == <<"record", record>>

\* other is the call of the second thread while it is not the one taking
\* steps, alone the outcomes recorded of calls that ran on their own; a
\* single call has no other call beside it.
NoCall == <<"none">>

Assign(name, v) == (name :> v) @@ locals

\* BundledDocumentMetadata{} and BundleDocument{}.
DefaultDocumentMetadata ==
    [key |-> NoKey, read_time |-> DefaultTimestamp, exists |-> FALSE,
     queries |-> <<>>]

DefaultBundleDocument ==
    [key |-> NoKey, data |-> NullValue, version |-> DefaultTimestamp,
     state |-> "kInvalid"]

(***************************************************************************)
(* BundleSerializer::DecodeDocumentMetadata                                *)
(***************************************************************************)

DocumentMetadataParse ==
    /\ entry = "DecodeDocumentMetadata"
    /\ pc = "parse"
    /\ IF is_discarded(Parse(input))
       THEN /\ status' = Fail(status, <<"Failed to parse string into json: ",
                                        input[2]>>)
            /\ result' = Returned(DefaultDocumentMetadata)
            /\ pc' = "returned"
       ELSE /\ pc' = "metadata_name"
            /\ UNCHANGED <<status, result>>
    /\ UNCHANGED <<entry, input, evalOrder, todo, locals, key>>
    /\ UNCHANGED <<other, alone>>

DocumentMetadataName ==
    /\ pc = "metadata_name"
    /\ LET name == Require(status, "name", Parse(input))
           p == DecodeName(name.st, name.v)
       IN  /\ status' = p.st
           /\ locals' = Assign("path", p.v)
           /\ IF ~ok(p.st)
              THEN /\ result' = Returned(DefaultDocumentMetadata)
                   /\ pc' = "returned"
              ELSE /\ pc' = "metadata_key"
                   /\ UNCHANGED result
    /\ UNCHANGED <<entry, input, evalOrder, todo, key>>
    /\ UNCHANGED <<other, alone>>

\* DocumentKey key = DocumentKey(path); the constructor aborts on a path
\* it does not accept.
DocumentMetadataKey ==
    /\ pc = "metadata_key"
    /\ key' = DocumentKey(locals["path"])
    /\ pc' = IF ValidKeyPath(locals["path"]) THEN "metadata_read_time"
             ELSE "aborted"
    /\ UNCHANGED <<entry, input, evalOrder, status, todo, locals, result>>
    /\ UNCHANGED <<other, alone>>

DocumentMetadataReadTime ==
    /\ pc = "metadata_read_time"
    /\ LET readTime == Require(status, "readTime", Parse(input))
           read_time == DecodeSnapshotVersion(readTime.st, readTime.v)
       IN  /\ status' = read_time.st
           /\ locals' = Assign("read_time", read_time.v)
    /\ pc' = "metadata_exists"
    /\ UNCHANGED <<entry, input, evalOrder, todo, key, result>>
    /\ UNCHANGED <<other, alone>>

DocumentMetadataExists ==
    /\ pc = "metadata_exists"
    /\ locals' = Assign("exists", OptionalBool("exists", Parse(input)))
    /\ pc' = "metadata_queries"
    /\ UNCHANGED <<entry, input, evalOrder, status, todo, key, result>>
    /\ UNCHANGED <<other, alone>>

\* The loop over `queries`: it returns {} at the first entry that is not a
\* string.
DocumentMetadataQueries ==
    /\ pc = "metadata_queries"
    /\ LET queries == RequireArray(status, "queries", Parse(input))
       IN  IF \E i \in 1..Len(queries.v) : ~is_string(queries.v[i])
           THEN /\ status' = Fail(queries.st,
                                  <<"Query name should be encoded as string">>)
                /\ result' = Returned(DefaultDocumentMetadata)
                /\ pc' = "returned"
                /\ UNCHANGED locals
           ELSE /\ status' = queries.st
                /\ locals' = Assign("queries",
                                    [i \in 1..Len(queries.v) |-> queries.v[i][2]])
                /\ pc' = "metadata_return"
                /\ UNCHANGED result
    /\ UNCHANGED <<entry, input, evalOrder, todo, key>>
    /\ UNCHANGED <<other, alone>>

DocumentMetadataReturn ==
    /\ pc = "metadata_return"
    /\ result' = Returned([key |-> key,
                           read_time |-> locals["read_time"],
                           exists |-> locals["exists"],
                           queries |-> locals["queries"]])
    /\ pc' = "returned"
    /\ UNCHANGED <<entry, input, evalOrder, status, todo, locals, key>>
    /\ UNCHANGED <<other, alone>>

(***************************************************************************)
(* BundleSerializer::DecodeDocument                                        *)
(***************************************************************************)

\* DecodeDocument recording its parse failure in a reader that both calls
\* use, instead of in the reader of its own call.
DocumentParse_SharedReader ==
    /\ entry = "DecodeDocument"
    /\ pc = "parse"
    /\ IF is_discarded(Parse(input))
       THEN /\ status' = Fail(status,
                              <<"Failed to parse document string into json: ",
                                input[2]>>)
            /\ result' = Returned(DefaultBundleDocument)
            /\ pc' = "returned"
       ELSE /\ pc' = "document_name"
            /\ UNCHANGED <<status, result>>
    /\ UNCHANGED <<entry, input, evalOrder, todo, locals, key>>
    /\ other' = IF other[1] = "none" THEN other
                ELSE <<"call", other[2], [other[3] EXCEPT !.status = status']>>
    /\ UNCHANGED alone

DocumentParse ==
    /\ entry = "DecodeDocument"
    /\ pc = "parse"
    /\ IF is_discarded(Parse(input))
       THEN /\ status' = Fail(status,
                              <<"Failed to parse document string into json: ",
                                input[2]>>)
            /\ result' = Returned(DefaultBundleDocument)
            /\ pc' = "returned"
       ELSE /\ pc' = "document_name"
            /\ UNCHANGED <<status, result>>
    /\ UNCHANGED <<entry, input, evalOrder, todo, locals, key>>
    /\ UNCHANGED <<other, alone>>

DocumentName ==
    /\ pc = "document_name"
    /\ LET name == Require(status, "name", Parse(input))
           p == DecodeName(name.st, name.v)
       IN  /\ status' = p.st
           /\ locals' = Assign("path", p.v)
           /\ IF ~ok(p.st)
              THEN /\ result' = Returned(DefaultBundleDocument)
                   /\ pc' = "returned"
              ELSE /\ pc' = "document_key"
                   /\ UNCHANGED result
    /\ UNCHANGED <<entry, input, evalOrder, todo, key>>
    /\ UNCHANGED <<other, alone>>

DocumentKeyStep ==
    /\ pc = "document_key"
    /\ key' = DocumentKey(locals["path"])
    /\ pc' = IF ValidKeyPath(locals["path"]) THEN "document_update_time"
             ELSE "aborted"
    /\ UNCHANGED <<entry, input, evalOrder, status, todo, locals, result>>
    /\ UNCHANGED <<other, alone>>

DocumentUpdateTime ==
    /\ pc = "document_update_time"
    /\ LET updateTime == Require(status, "updateTime", Parse(input))
           update_time == DecodeSnapshotVersion(updateTime.st, updateTime.v)
       IN  /\ status' = update_time.st
           /\ locals' = Assign("update_time", update_time.v)
    /\ pc' = "document_map_value"
    /\ UNCHANGED <<entry, input, evalOrder, todo, key, result>>
    /\ UNCHANGED <<other, alone>>

\* auto map_value = DecodeMapValue(reader, document);
DocumentMapValue ==
    /\ pc = "document_map_value"
    /\ LET map_value == DecodeMapValue(status, Parse(input))
       IN  /\ status' = map_value.st
           /\ locals' = Assign("map_value", map_value.v)
    /\ pc' = "document_return"
    /\ UNCHANGED <<entry, input, evalOrder, todo, key, result>>
    /\ UNCHANGED <<other, alone>>

\* The Document is built of map_value, key and update_time; its data is
\* kept here as the FieldValue that DecodeMapValue returned.
DocumentReturn ==
    /\ pc = "document_return"
    /\ result' = Returned([key |-> key,
                           data |-> locals["map_value"],
                           version |-> locals["update_time"],
                           state |-> "kSynced"])
    /\ pc' = "returned"
    /\ UNCHANGED <<entry, input, evalOrder, status, todo, locals, key>>
    /\ UNCHANGED <<other, alone>>

(***************************************************************************)
(* BundleSerializer::DecodeBundleMetadata                                  *)
(***************************************************************************)

DefaultBundleMetadata ==
    [bundle_id |-> "", version |-> 0, create_time |-> DefaultTimestamp,
     total_documents |-> 0, total_bytes |-> 0]

\* The arguments of a constructor call, in the order the build evaluates
\* them.
Reverse(args) == [i \in 1..Len(args) |-> args[Len(args) + 1 - i]]

ArgumentOrder(args) == IF evalOrder = "ltr" THEN args ELSE Reverse(args)

BundleMetadataParse ==
    /\ entry = "DecodeBundleMetadata"
    /\ pc = "parse"
    /\ IF is_discarded(Parse(input))
       THEN /\ status' = Fail(status, <<"Failed to parse string into json: ",
                                        input[2]>>)
            /\ result' = Returned(DefaultBundleMetadata)
            /\ pc' = "returned"
            /\ UNCHANGED todo
       ELSE /\ pc' = "bundle_metadata_args"
            /\ todo' = ArgumentOrder(<<"id", "version", "createTime",
                                       "totalDocuments", "totalBytes">>)
            /\ UNCHANGED <<status, result>>
    /\ UNCHANGED <<entry, input, evalOrder, locals, key>>
    /\ UNCHANGED <<other, alone>>

\* One argument of the BundleMetadata(...) constructor call.
BundleMetadataArg ==
    /\ pc = "bundle_metadata_args"
    /\ todo # <<>>
    /\ LET metadata == Parse(input)
           arg == Head(todo)
           createTime == Require(status, "createTime", metadata)
           r == CASE arg = "id" -> RequireString(status, "id", metadata)
                  [] arg = "version" ->
                       RequireInt(status, "version", metadata, "uint32_t")
                  [] arg = "createTime" ->
                       DecodeSnapshotVersion(createTime.st, createTime.v)
                  [] arg = "totalDocuments" ->
                       RequireInt(status, "totalDocuments", metadata, "uint32_t")
                  [] arg = "totalBytes" ->
                       RequireInt(status, "totalBytes", metadata, "uint64_t")
       IN  /\ status' = r.st
           /\ locals' = Assign(arg, r.v)
    /\ todo' = Tail(todo)
    /\ UNCHANGED <<entry, input, evalOrder, pc, key, result>>
    /\ UNCHANGED <<other, alone>>

BundleMetadataReturn ==
    /\ pc = "bundle_metadata_args"
    /\ todo = <<>>
    /\ result' = Returned([bundle_id |-> locals["id"],
                           version |-> locals["version"],
                           create_time |-> locals["createTime"],
                           total_documents |-> locals["totalDocuments"],
                           total_bytes |-> locals["totalBytes"]])
    /\ pc' = "returned"
    /\ UNCHANGED <<entry, input, evalOrder, status, todo, locals, key>>
    /\ UNCHANGED <<other, alone>>

(***************************************************************************)
(* BundleSerializer::DecodeNamedQuery and the DecodeBundledQuery it calls  *)
(***************************************************************************)

DefaultNamedQuery ==
    [query_name |-> "", bundled_query |-> DefaultBundledQuery,
     read_time |-> DefaultTimestamp]

NamedQueryParse ==
    /\ entry = "DecodeNamedQuery"
    /\ pc = "parse"
    /\ IF is_discarded(Parse(input))
       THEN /\ status' = Fail(status, <<"Failed to parse string into json: ",
                                        input[2]>>)
            /\ result' = Returned(DefaultNamedQuery)
            /\ pc' = "returned"
            /\ UNCHANGED todo
       ELSE /\ pc' = "named_query_args"
            /\ todo' = ArgumentOrder(<<"name", "bundledQuery", "readTime">>)
            /\ UNCHANGED <<status, result>>
    /\ UNCHANGED <<entry, input, evalOrder, locals, key>>
    /\ UNCHANGED <<other, alone>>

NamedQueryArgName ==
    /\ pc = "named_query_args"
    /\ todo # <<>>
    /\ Head(todo) = "name"
    /\ LET name == RequireString(status, "name", Parse(input))
       IN  /\ status' = name.st
           /\ locals' = Assign("name", name.v)
    /\ todo' = Tail(todo)
    /\ UNCHANGED <<entry, input, evalOrder, pc, key, result>>
    /\ UNCHANGED <<other, alone>>

NamedQueryArgReadTime ==
    /\ pc = "named_query_args"
    /\ todo # <<>>
    /\ Head(todo) = "readTime"
    /\ LET readTime == Require(status, "readTime", Parse(input))
           read_time == DecodeSnapshotVersion(readTime.st, readTime.v)
       IN  /\ status' = read_time.st
           /\ locals' = Assign("readTime", read_time.v)
    /\ todo' = Tail(todo)
    /\ UNCHANGED <<entry, input, evalOrder, pc, key, result>>
    /\ UNCHANGED <<other, alone>>

\* The json DecodeBundledQuery is called on, and its structured query.
BundledQueryJson(st) == Require(st, "bundledQuery", Parse(input))

StructuredQueryJson(st) ==
    LET query == BundledQueryJson(st)
    IN  Require(query.st, "structuredQuery", query.v)

\* The call of DecodeBundledQuery up to its first return: Require of
\* `structuredQuery`, VerifyStructuredQuery, and the return of
\* BundledQuery() when the reader is not ok.
BundledQueryVerify ==
    /\ pc = "named_query_args"
    /\ todo # <<>>
    /\ Head(todo) = "bundledQuery"
    /\ LET structured_query == StructuredQueryJson(status)
           verified == VerifyStructuredQuery(structured_query.st,
                                             structured_query.v)
       IN  /\ status' = verified
           /\ IF ~ok(verified)
              THEN /\ locals' = Assign("bundledQuery", DefaultBundledQuery)
                   /\ todo' = Tail(todo)
                   /\ UNCHANGED pc
              ELSE /\ locals' = Assign("query", BundledQueryJson(status).v)
                                @@ ("structured_query" :> structured_query.v)
                   /\ pc' = "query_parent"
                   /\ UNCHANGED todo
    /\ UNCHANGED <<entry, input, evalOrder, key, result>>
    /\ UNCHANGED <<other, alone>>

BundledQueryParent ==
    /\ pc = "query_parent"
    /\ LET parent_json == Require(status, "parent", locals["query"])
           parent == DecodeName(parent_json.st, parent_json.v)
       IN  /\ status' = parent.st
           /\ locals' = Assign("parent", parent.v)
    /\ pc' = "query_from"
    /\ UNCHANGED <<entry, input, evalOrder, todo, key, result>>
    /\ UNCHANGED <<other, alone>>

\* DecodeCollectionSource and the collection_group made of its group.
BundledQueryFrom ==
    /\ pc = "query_from"
    /\ LET source == DecodeCollectionSource(status,
                                            at(locals["structured_query"], "from"),
                                            locals["parent"], "")
       IN  IF source.thrown
           THEN /\ pc' = "thrown"
                /\ UNCHANGED <<status, locals>>
           ELSE /\ status' = source.st
                /\ locals' = ("parent" :> source.parent)
                             @@ ("collection_group" :>
                                    IF ~IsEmptyString(source.group)
                                    THEN SomeGroup(source.group)
                                    ELSE NoGroup)
                             @@ locals
                /\ pc' = "query_where"
    /\ UNCHANGED <<entry, input, evalOrder, todo, key, result>>
    /\ UNCHANGED <<other, alone>>

BundledQueryWhere ==
    /\ pc = "query_where"
    /\ LET filters == DecodeWhere(status, locals["structured_query"])
       IN  /\ status' = filters.st
           /\ locals' = Assign("filters", filters.v)
    /\ pc' = "query_order_by"
    /\ UNCHANGED <<entry, input, evalOrder, todo, key, result>>
    /\ UNCHANGED <<other, alone>>

BundledQueryOrderBy ==
    /\ pc = "query_order_by"
    /\ LET order_bys == DecodeOrderBy(status, locals["structured_query"])
       IN  /\ status' = order_bys.st
           /\ locals' = Assign("order_bys", order_bys.v)
    /\ pc' = "query_start_at"
    /\ UNCHANGED <<entry, input, evalOrder, todo, key, result>>
    /\ UNCHANGED <<other, alone>>

\* The bound kept whatever its position.
BoundOrNone_KeepsEmpty(b) == SomeBound(b)

\* A bound is kept only when its position is not empty.
BoundOrNone(b) == IF b.position # <<>> THEN SomeBound(b) ELSE NoBound

BundledQueryStartAt ==
    /\ pc = "query_start_at"
    /\ LET start_at_bound == DecodeBound(status, locals["structured_query"],
                                         "startAt")
       IN  /\ status' = start_at_bound.st
           /\ locals' = Assign("start_at", BoundOrNone(start_at_bound.v))
    /\ pc' = "query_end_at"
    /\ UNCHANGED <<entry, input, evalOrder, todo, key, result>>
    /\ UNCHANGED <<other, alone>>

BundledQueryEndAt ==
    /\ pc = "query_end_at"
    /\ LET end_at_bound == DecodeBound(status, locals["structured_query"],
                                       "endAt")
       IN  /\ status' = end_at_bound.st
           /\ locals' = Assign("end_at", BoundOrNone(end_at_bound.v))
    /\ pc' = "query_limit"
    /\ UNCHANGED <<entry, input, evalOrder, todo, key, result>>
    /\ UNCHANGED <<other, alone>>

BundledQueryLimit ==
    /\ pc = "query_limit"
    /\ LET limit == DecodeLimit(status, locals["structured_query"])
       IN  /\ status' = limit.st
           /\ locals' = Assign("limit", limit.v)
    /\ pc' = "query_limit_type"
    /\ UNCHANGED <<entry, input, evalOrder, todo, key, result>>
    /\ UNCHANGED <<other, alone>>

BundledQueryLimitType ==
    /\ pc = "query_limit_type"
    /\ LET limit_type == DecodeLimitType(status, locals["query"])
       IN  /\ status' = limit_type.st
           /\ locals' = Assign("limit_type", limit_type.v)
    /\ pc' = "query_return"
    /\ UNCHANGED <<entry, input, evalOrder, todo, key, result>>
    /\ UNCHANGED <<other, alone>>

BundledQueryReturn ==
    /\ pc = "query_return"
    /\ locals' = Assign("bundledQuery",
                        BundledQuery(Target(locals["parent"],
                                            locals["collection_group"],
                                            locals["filters"],
                                            locals["order_bys"],
                                            locals["limit"],
                                            locals["start_at"],
                                            locals["end_at"]),
                                     locals["limit_type"]))
    /\ todo' = Tail(todo)
    /\ pc' = "named_query_args"
    /\ UNCHANGED <<entry, input, evalOrder, status, key, result>>
    /\ UNCHANGED <<other, alone>>

NamedQueryReturn ==
    /\ pc = "named_query_args"
    /\ todo = <<>>
    /\ result' = Returned([query_name |-> locals["name"],
                           bundled_query |-> locals["bundledQuery"],
                           read_time |-> locals["readTime"]])
    /\ pc' = "returned"
    /\ UNCHANGED <<entry, input, evalOrder, status, todo, locals, key>>
    /\ UNCHANGED <<other, alone>>

(***************************************************************************)
(* Inputs of DecodeBundleMetadata and DecodeNamedQuery                     *)
(***************************************************************************)

BundleMetadataInputs ==
    {JsonText(JObj(Opt("id", id) @@ Opt("version", version)
                   @@ Opt("createTime", createTime)
                   @@ Opt("totalDocuments", totalDocuments)
                   @@ Opt("totalBytes", totalBytes))) :
        id \in {Absent, JStr("bundle1"), JInt(7)},
        version \in {Absent, JInt(1), JStr("1"), JStr("x")},
        createTime \in Timestamps \cup {Absent},
        totalDocuments \in {Absent, JInt(1)},
        totalBytes \in {Absent, JInt(10), JStr("10"), JStr("-1")}} \cup
    NotAnObject

RootParent == JStr("projects/p/databases/d/documents")
DocumentParent == JStr("projects/p/databases/d/documents/c/d1")
ForeignParent == JStr("projects/q/databases/d/documents")

ValidParents == {RootParent, DocumentParent}
Parents == ValidParents \cup {ForeignParent, JInt(7), Absent}

ValidSelectors ==
    { JObj("collectionId" :> JStr("coll")),
      JObj("collectionId" :> JStr("coll") @@ "allDescendants" :> JBool(TRUE)),
      JObj("collectionId" :> JStr("coll") @@ "allDescendants" :> JBool(FALSE)) }

Selectors ==
    ValidSelectors \cup
    { JObj("collectionId" :> JStr("") @@ "allDescendants" :> JBool(TRUE)),
      JObj("collectionId" :> JStr("coll") @@ "allDescendants" :> JStr("true")),
      JObj("allDescendants" :> JBool(TRUE)),
      JStr("coll") }

Froms == ArraysUpTo(Selectors, MaxFrom)
         \cup {JStr("coll"), JObj("collectionId" :> JStr("coll"))}

FieldF == JObj("fieldPath" :> JStr("f"))
FieldG == JObj("fieldPath" :> JStr("g.h"))

ValidFieldFilters ==
    { JObj("field" :> FieldF @@ "op" :> JStr("EQUAL")
           @@ "value" :> JObj("stringValue" :> JStr("x"))),
      JObj("field" :> FieldG @@ "op" :> JStr("LESS_THAN")
           @@ "value" :> JObj("integerValue" :> JStr("42"))) }

InvalidFieldFilters ==
    { JObj("field" :> FieldF @@ "op" :> JStr("BOGUS")
           @@ "value" :> JObj("stringValue" :> JStr("x"))),
      JObj("field" :> JObj("fieldPath" :> JStr("f..g")) @@ "op" :> JStr("EQUAL")
           @@ "value" :> JObj("stringValue" :> JStr("x"))),
      JObj("field" :> FieldF @@ "op" :> JStr("EQUAL")) }

FieldFilters == ValidFieldFilters \cup InvalidFieldFilters

UnaryFilters ==
    {JObj("field" :> FieldF @@ "op" :> JStr(op)) :
        op \in {"IS_NAN", "IS_NULL", "IS_NOT_NAN", "IS_NOT_NULL", "BOGUS"}} \cup
    {JObj("op" :> JStr("IS_NAN"))}

ValidChildren == {JObj("fieldFilter" :> f) : f \in ValidFieldFilters}

Children ==
    {JObj("fieldFilter" :> f) : f \in FieldFilters} \cup
    {JObj("unaryFilter" :> JObj("field" :> FieldF @@ "op" :> JStr("IS_NAN")))}

CompositeFilters ==
    {JObj("op" :> JStr(op) @@ "filters" :> children) :
        op \in {"AND", "OR"}, children \in ArraysUpTo(Children, MaxFilters)} \cup
    { JObj("filters" :> JArr(<<>>)),
      JObj("op" :> JStr("AND")),
      JObj("op" :> JStr("AND") @@ "filters" :> JStr("x")) }

Wheres ==
    {Absent, JStr("x"), JObj(NoMembers)} \cup
    {JObj("compositeFilter" :> c) : c \in CompositeFilters} \cup
    {JObj("fieldFilter" :> f) : f \in FieldFilters} \cup
    {JObj("unaryFilter" :> u) : u \in UnaryFilters}

ValidOrderEntries ==
    { JObj("field" :> FieldF),
      JObj("field" :> FieldF @@ "direction" :> JStr("DESCENDING")),
      JObj("field" :> FieldG @@ "direction" :> JStr("ASCENDING")) }

OrderEntries ==
    ValidOrderEntries \cup
    { JObj("field" :> FieldF @@ "direction" :> JStr("BOGUS")),
      JObj("direction" :> JStr("ASCENDING")),
      JObj("field" :> FieldF @@ "direction" :> JInt(1)) }

OrderBys == ArraysUpTo(OrderEntries, MaxOrderBy) \cup {Absent, JStr("f")}

BoundValue1 == JObj("stringValue" :> JStr("x"))
BoundValue2 == JObj("integerValue" :> JInt(42))

BoundJsons ==
    { Absent,
      JStr("x"),
      JObj("values" :> JArr(<<>>)),
      JObj("before" :> JBool(TRUE) @@ "values" :> JArr(<<>>)),
      JObj("values" :> JArr(<<BoundValue1>>)),
      JObj("before" :> JBool(TRUE) @@ "values" :> JArr(<<BoundValue1, BoundValue2>>)),
      JObj("before" :> JBool(TRUE)),
      JObj("values" :> JArr(<<JStr("x")>>)) }

Limits == {Absent, JInt(5), JStr("5"), JFloat(15)}

LimitTypes == {Absent, JStr("FIRST"), JStr("LAST"), JStr("BOGUS"), JInt(1)}

StructuredQuery(from, where, orderBy, startAt, endAt, limit) ==
    JObj(Opt("from", from) @@ Opt("where", where) @@ Opt("orderBy", orderBy)
         @@ Opt("startAt", startAt) @@ Opt("endAt", endAt)
         @@ Opt("limit", limit))

BaseFrom == JArr(<<JObj("collectionId" :> JStr("coll"))>>)
BaseOrderBy == JArr(<<JObj("field" :> FieldF)>>)

BaseStructuredQuery ==
    StructuredQuery(BaseFrom, Absent, BaseOrderBy, Absent, Absent, Absent)

StructuredQueries ==
    { BaseStructuredQuery,
      Absent,
      JStr("x"),
      JObj("from" :> BaseFrom @@ "orderBy" :> BaseOrderBy
           @@ "select" :> JObj(NoMembers)),
      JObj("from" :> BaseFrom @@ "orderBy" :> BaseOrderBy
           @@ "offset" :> JInt(3)),
      JObj("orderBy" :> BaseOrderBy),
      JObj("select" :> JObj(NoMembers) @@ "offset" :> JInt(3)) }

BundledQueryOf(parent, structuredQuery, limitType) ==
    JObj(Opt("parent", parent) @@ Opt("structuredQuery", structuredQuery)
         @@ Opt("limitType", limitType))

NamedQueryOf(name, bundledQuery, readTime) ==
    JsonText(JObj(Opt("name", name) @@ Opt("bundledQuery", bundledQuery)
                  @@ Opt("readTime", readTime)))

ValidReadTime == JObj("seconds" :> JInt(1) @@ "nanos" :> JInt(0))

NamedQueryInputs ==
    {NamedQueryOf(name, bundledQuery, readTime) :
        name \in {Absent, JStr("q"), JInt(7)},
        bundledQuery \in {Absent, JStr("x"),
                          BundledQueryOf(RootParent, BaseStructuredQuery, Absent),
                          BundledQueryOf(ForeignParent, BaseStructuredQuery, Absent)},
        readTime \in Timestamps \cup {Absent}} \cup
    {NamedQueryOf(JStr("q"), BundledQueryOf(parent, sq, Absent), ValidReadTime) :
        parent \in Parents, sq \in StructuredQueries} \cup
    {NamedQueryOf(JStr("q"),
                  BundledQueryOf(parent,
                                 StructuredQuery(from, Absent, BaseOrderBy,
                                                 Absent, Absent, Absent),
                                 Absent),
                  ValidReadTime) :
        parent \in Parents, from \in Froms} \cup
    {NamedQueryOf(JStr("q"),
                  BundledQueryOf(parent,
                                 StructuredQuery(BaseFrom, where, BaseOrderBy,
                                                 Absent, Absent, Absent),
                                 Absent),
                  ValidReadTime) :
        parent \in {RootParent, ForeignParent}, where \in Wheres} \cup
    {NamedQueryOf(JStr("q"),
                  BundledQueryOf(RootParent,
                                 StructuredQuery(BaseFrom, where, orderBy,
                                                 Absent, Absent, Absent),
                                 Absent),
                  ValidReadTime) :
        where \in {Absent,
                   JObj("unaryFilter" :> JObj("field" :> FieldF
                                              @@ "op" :> JStr("BOGUS")))},
        orderBy \in OrderBys} \cup
    {NamedQueryOf(JStr("q"),
                  BundledQueryOf(RootParent,
                                 StructuredQuery(BaseFrom, Absent, BaseOrderBy,
                                                 startAt, endAt, Absent),
                                 Absent),
                  ValidReadTime) :
        startAt \in BoundJsons, endAt \in BoundJsons} \cup
    {NamedQueryOf(JStr("q"),
                  BundledQueryOf(RootParent,
                                 StructuredQuery(BaseFrom, Absent, BaseOrderBy,
                                                 Absent, Absent, limit),
                                 limitType),
                  ValidReadTime) :
        limit \in Limits, limitType \in LimitTypes} \cup
    NotAnObject

(***************************************************************************)
(* Specification                                                           *)
(***************************************************************************)

Inputs ==
    [DecodeBundleMetadata |-> BundleMetadataInputs,
     DecodeNamedQuery |-> NamedQueryInputs,
     DecodeDocumentMetadata |-> DocumentMetadataInputs,
     DecodeDocument |-> DocumentInputs]

Init ==
    /\ entry \in DOMAIN Inputs
    /\ input \in Inputs[entry]
    /\ evalOrder \in {"ltr", "rtl"}
    /\ pc = "parse"
    /\ status = OkStatus
    /\ todo = <<>>
    /\ locals = NoMembers
    /\ key = NoKey
    /\ result = NoResult
    /\ other = NoCall
    /\ alone = <<>>

Next ==
    \/ BundleMetadataParse
    \/ BundleMetadataArg
    \/ BundleMetadataReturn
    \/ NamedQueryParse
    \/ NamedQueryArgName
    \/ NamedQueryArgReadTime
    \/ BundledQueryVerify
    \/ BundledQueryParent
    \/ BundledQueryFrom
    \/ BundledQueryWhere
    \/ BundledQueryOrderBy
    \/ BundledQueryStartAt
    \/ BundledQueryEndAt
    \/ BundledQueryLimit
    \/ BundledQueryLimitType
    \/ BundledQueryReturn
    \/ NamedQueryReturn
    \/ DocumentMetadataParse
    \/ DocumentMetadataName
    \/ DocumentMetadataKey
    \/ DocumentMetadataReadTime
    \/ DocumentMetadataExists
    \/ DocumentMetadataQueries
    \/ DocumentMetadataReturn
    \/ DocumentParse
    \/ DocumentName
    \/ DocumentKeyStep
    \/ DocumentUpdateTime
    \/ DocumentMapValue
    \/ DocumentReturn

Spec == Init /\ [][Next]_vars

(***************************************************************************)
(* DecodeValue on its own.  One behaviour is one call of DecodeValue by a  *)
(* decoder whose reader is ok or has already recorded a failure: input is  *)
(* the json value handed to the call, result the FieldValue it returns.    *)
(* The values are put together from the discriminator keys, each with      *)
(* well-formed and ill-formed payloads; MaxKeys limits the number of       *)
(* discriminator keys in one value object.                                 *)
(***************************************************************************)

MaxKeys == 2

\* The discriminator keys, in the order DecodeValue asks for them.
Discriminators ==
    <<"nullValue", "booleanValue", "integerValue", "doubleValue",
      "timestampValue", "stringValue", "bytesValue", "referenceValue",
      "geoPointValue", "arrayValue", "mapValue">>

DiscriminatorKeys == {Discriminators[i] : i \in 1..Len(Discriminators)}

PayloadsOf ==
    [nullValue |-> {JNull},
     booleanValue |-> {JBool(TRUE), JStr("no")},
     integerValue |-> {JInt(42), JStr("42"), JStr("4x")},
     doubleValue |-> {JFloat(15), JStr("1.5"), JBool(TRUE)},
     timestampValue |-> {JStr("1970-01-01T00:00:01Z"),
                         JObj("seconds" :> JInt(1) @@ "nanos" :> JInt(5)),
                         JObj("seconds" :> JInt(1)
                              @@ "nanos" :> JInt(1000000000))},
     stringValue |-> {JStr("x"), JInt(1)},
     bytesValue |-> {JStr("YQ=="), JStr("?")},
     referenceValue |-> {JStr("projects/p/databases/d/documents/c/d1"),
                         JStr("projects/q/databases/d/documents/c/d1")},
     geoPointValue |-> {JObj("latitude" :> JFloat(15)
                             @@ "longitude" :> JStr("1.5")),
                        JObj("latitude" :> JStr("north"))},
     arrayValue |-> {JObj("values" :> JArr(<<JObj("integerValue" :> JInt(1)),
                                             JObj("stringValue" :> JStr("y"))>>)),
                     JObj("values" :> JArr(<<JStr("y")>>)),
                     JObj(NoMembers)},
     mapValue |-> {JObj("fields" :> JObj("a" :> JObj("stringValue" :> JStr("x")))),
                   JObj("a" :> JObj("stringValue" :> JStr("x")))}]

\* The member maps that give every key of K one of its payloads.
RECURSIVE MembersOver(_)
MembersOver(K) ==
    IF K = {} THEN {NoMembers}
    ELSE LET k == CHOOSE k \in K : TRUE
         IN  {(k :> p) @@ m : p \in PayloadsOf[k], m \in MembersOver(K \ {k})}

ValueObjects ==
    UNION {{JObj(m) : m \in MembersOver(K)} :
              K \in {K \in SUBSET DiscriminatorKeys :
                        Cardinality(K) \in 1..MaxKeys}}

ValueInputs ==
    ValueObjects \cup
    { JNull, JStr("x"), JInt(1), JBool(TRUE), JArr(<<>>),
      JObj(NoMembers),
      JObj("value" :> JStr("x")),
      JObj("nullvalue" :> JNull @@ "fields" :> JObj(NoMembers)) }

\* A failure recorded before the call.
EarlierFailure == Fail(OkStatus, <<"Missing child '%s'", "value">>)

ValueInit ==
    /\ entry = "DecodeValue"
    /\ input \in ValueInputs
    /\ evalOrder \in {"ltr", "rtl"}
    /\ pc = "call"
    /\ status \in {OkStatus, EarlierFailure}
    /\ todo = <<>>
    /\ locals = NoMembers
    /\ key = NoKey
    /\ result = NoResult
    /\ other = NoCall
    /\ alone = <<>>

ValueDecode ==
    /\ entry = "DecodeValue"
    /\ pc = "call"
    /\ \E d \in {DecodeValue(status, input)} :
          /\ status' = d.st
          /\ result' = Returned(d.v)
    /\ pc' = "returned"
    /\ UNCHANGED <<entry, input, evalOrder, todo, locals, key>>
    /\ UNCHANGED <<other, alone>>

ValueNext == ValueDecode

ValueSpec == ValueInit /\ [][ValueNext]_vars

(***************************************************************************)
(* Two calls on one BundleSerializer, from two threads, each with a        *)
(* JsonReader of its own.  The serializer's member functions are const and *)
(* read rpc_serializer_ (ProjectId, DatabaseId); empty_string() and        *)
(* empty_vector() hand out references to objects that are never written.   *)
(* What a call writes is its reader and its local variables: callVars for  *)
(* the call taking steps, other for the call that waits.  A behaviour runs *)
(* each of the two calls on its own first and records its outcome in       *)
(* alone, then starts both again and interleaves their statements.         *)
(***************************************************************************)

Call(e, i, o, p, s, t, l, k, r) ==
    [entry |-> e, input |-> i, evalOrder |-> o, pc |-> p, status |-> s,
     todo |-> t, locals |-> l, key |-> k, result |-> r]

\* The call taking steps.
Running ==
    Call(entry, input, evalOrder, pc, status, todo, locals, key, result)

\* A call at its start, with a reader that has recorded nothing.
Fresh(e, i) ==
    Call(e, i, evalOrder, "parse", OkStatus, <<>>, NoMembers, NoKey, NoResult)

Waiting(id, call) == <<"call", id, call>>

Ended(call) == call.pc \in {"returned", "thrown", "aborted"}

\* What the caller has of a call that ended.
Outcome(call) ==
    [pc |-> call.pc, status |-> call.status, result |-> call.result]

Resume(call) ==
    /\ entry' = call.entry
    /\ input' = call.input
    /\ evalOrder' = call.evalOrder
    /\ pc' = call.pc
    /\ status' = call.status
    /\ todo' = call.todo
    /\ locals' = call.locals
    /\ key' = call.key
    /\ result' = call.result

ConcurrentCalls ==
    { <<"DecodeBundleMetadata",
        JsonText(JObj("id" :> JStr("bundle1") @@ "version" :> JInt(1)
                      @@ "createTime" :> ValidReadTime
                      @@ "totalDocuments" :> JInt(1)
                      @@ "totalBytes" :> JStr("10")))>>,
      <<"DecodeBundleMetadata",
        JsonText(JObj("version" :> JInt(1)
                      @@ "createTime" :> JObj("seconds" :> JInt(1)
                                              @@ "nanos" :> JInt(1000000000))
                      @@ "totalDocuments" :> JInt(1)
                      @@ "totalBytes" :> JInt(10)))>>,
      <<"DecodeNamedQuery",
        NamedQueryOf(JStr("q"),
                     BundledQueryOf(RootParent,
                                    StructuredQuery(BaseFrom, Absent, BaseOrderBy,
                                                    JObj("values" :> JArr(<<BoundValue1>>)),
                                                    Absent, JInt(5)),
                                    JStr("LAST")),
                     ValidReadTime)>>,
      <<"DecodeNamedQuery",
        NamedQueryOf(JStr("q"),
                     BundledQueryOf(ForeignParent,
                                    StructuredQuery(BaseFrom, Absent, Absent,
                                                    Absent, Absent, Absent),
                                    Absent),
                     ValidReadTime)>>,
      <<"DecodeDocumentMetadata",
        JsonText(JObj("name" :> DocumentParent @@ "readTime" :> ValidReadTime
                      @@ "exists" :> JBool(TRUE)
                      @@ "queries" :> JArr(<<JStr("q1")>>)))>>,
      <<"DecodeDocumentMetadata",
        JsonText(JObj("name" :> DocumentParent @@ "readTime" :> ValidReadTime
                      @@ "queries" :> JArr(<<JInt(7)>>)))>>,
      <<"DecodeDocument",
        JsonText(JObj("name" :> DocumentParent @@ "updateTime" :> ValidReadTime
                      @@ "fields" :> JObj("a" :> JObj("stringValue" :> JStr("x")))))>>,
      <<"DecodeDocument", Garbage("{oops")>> }

ConcurrentInit ==
    /\ evalOrder \in {"ltr", "rtl"}
    /\ \E first \in ConcurrentCalls, second \in ConcurrentCalls :
          /\ entry = first[1]
          /\ input = first[2]
          /\ other = Waiting(2, Fresh(second[1], second[2]))
    /\ pc = "parse"
    /\ status = OkStatus
    /\ todo = <<>>
    /\ locals = NoMembers
    /\ key = NoKey
    /\ result = NoResult
    /\ alone = <<>>

\* The call that ran on its own has ended: its outcome is recorded, the
\* other call runs next and the call itself is started again.
RecordAlone ==
    /\ Len(alone) < 2
    /\ Ended(Running)
    /\ alone' = Append(alone, Outcome(Running))
    /\ Resume(other[3])
    /\ other' = Waiting(3 - other[2], Fresh(entry, input))

\* The scheduler moves from one thread to the other between two statements.
Switch ==
    /\ Len(alone) = 2
    /\ ~Ended(other[3])
    /\ Resume(other[3])
    /\ other' = Waiting(3 - other[2], Running)
    /\ UNCHANGED alone

ConcurrentNext ==
    \/ Next
    \/ RecordAlone
    \/ Switch

ConcurrentSpec == ConcurrentInit /\ [][ConcurrentNext]_vars

(***************************************************************************)
(* Properties                                                              *)
(***************************************************************************)

NoNonLocalExit == pc \notin {"thrown", "aborted"}

\* The argument DecodeName is called on at the statements that call it,
\* with the status Require leaves.
NameSteps == {"metadata_name", "document_name", "query_parent"}

NameArgument ==
    IF pc = "query_parent" THEN Require(status, "parent", locals["query"])
    ELSE Require(status, "name", Parse(input))

ResolvedName(l) == IF "parent" \in DOMAIN l THEN l["parent"] ELSE l["path"]

\* C3 (DecodeNameContract, the property of every step DecodeNameStep
\* describes): DecodeName on a string whose leading 5 segments are not those of the
\* configured project and database records a failure whose message holds
\* the path's canonical string and returns the empty path; on a string
\* whose leading 5 segments match it records nothing and returns the path
\* without exactly these 5 segments; on a json that is not a string it
\* records a failure and returns the empty path.
DecodeNameStep ==
    pc \in NameSteps =>
        LET arg == NameArgument
            segments == FromString(arg.v[2])
        IN  IF ~is_string(arg.v)
            THEN ~ok(status') /\ ResolvedName(locals') = <<>>
            ELSE IF Len(segments) < 5 \/ SubSeq(segments, 1, 5) # LocalHeader
            THEN /\ ~ok(status')
                 /\ (ok(arg.st) => status'.msg[2] = StrJoin(segments, "/"))
                 /\ ResolvedName(locals') = <<>>
            ELSE /\ status' = arg.st
                 /\ ResolvedName(locals') = SubSeq(segments, 6, Len(segments))
                 /\ Len(ResolvedName(locals')) = Len(segments) - 5

DecodeNameContract == [][DecodeNameStep]_vars

\* C3 witness: DecodeDocument resolved a name of the configured database to
\* the two segments that follow its header.
DecodeNameStripped ==
    /\ pc = "document_key"
    /\ ok(status)
    /\ locals["path"] = <<"c", "d1">>

\* C4: a DocumentKey is constructed only from a path the key type accepts:
\* never when `name` is missing, not a string or of another database, and
\* never from a path that violates the key type's assumptions.  Violated:
\* the entry points check only ok() after DecodeName, and DecodeName
\* succeeds on the name of the database root or of a collection.
KeyOnlyFromValidPath ==
    key # NoKey =>
        /\ contains(Parse(input), "name")
        /\ is_string(at(Parse(input), "name"))
        /\ IsLocalResourceName(FromString(at(Parse(input), "name")[2]))
        /\ ValidKeyPath(key[2])

\* The members of a document next to `name` and `updateTime`.
TopLevelMembers(document) ==
    [k \in DOMAIN document[2] \ {"name", "updateTime"} |-> document[2][k]]

AsMapValue(fields) == JObj("mapValue" :> JObj("fields" :> fields))

DocumentDecoded ==
    /\ entry = "DecodeDocument"
    /\ pc = "returned"
    /\ key # NoKey

NamedQueryDecoded == entry = "DecodeNamedQuery" /\ pc = "returned"

DecodedTarget == result[2].bundled_query.target

InputStructuredQuery ==
    at(at(Parse(input), "bundledQuery"), "structuredQuery")

\* Named queries that are valid but for having no `orderBy`.
QueriesWithoutOrderBy ==
    {NamedQueryOf(JStr("q"),
                  BundledQueryOf(parent,
                                 StructuredQuery(BaseFrom, where, Absent,
                                                 Absent, Absent, Absent),
                                 Absent),
                  ValidReadTime) :
        parent \in ValidParents,
        where \in {Absent} \cup {JObj("fieldFilter" :> f) : f \in ValidFieldFilters}}

\* C6: `orderBy` is optional: an otherwise valid query without the key
\* decodes without failure to an empty OrderByList.  Violated: DecodeOrderBy
\* reads the key with RequireArray, which records a failure when the key is
\* missing.
OrderByIsOptional ==
    (NamedQueryDecoded /\ input \in QueriesWithoutOrderBy) =>
        ok(status) /\ DecodedTarget.order_bys = <<>>

\* A decode that went through DecodeCollectionSource on a `from` of exactly
\* one selector whose collectionId is a string.
OneSelectorDecoded ==
    /\ NamedQueryDecoded
    /\ "collection_group" \in DOMAIN locals
    /\ Len(at(InputStructuredQuery, "from")[2]) = 1
    /\ contains(at(InputStructuredQuery, "from")[2][1], "collectionId")
    /\ is_string(at(at(InputStructuredQuery, "from")[2][1], "collectionId"))

TheSelector == at(InputStructuredQuery, "from")[2][1]

CollectionId == at(TheSelector, "collectionId")[2]

AllDescendantsTrue ==
    /\ contains(TheSelector, "allDescendants")
    /\ at(TheSelector, "allDescendants") = JBool(TRUE)

AllDescendantsAbsentOrFalse ==
    \/ ~contains(TheSelector, "allDescendants")
    \/ at(TheSelector, "allDescendants") = JBool(FALSE)

\* The path DecodeName makes of the query's `parent`: the segments after
\* the database header, or the empty path when the parent is rejected.
ParentPath ==
    LET query == at(Parse(input), "bundledQuery")
        segments == FromString(at(query, "parent")[2])
    IN  IF /\ contains(query, "parent")
           /\ is_string(at(query, "parent"))
           /\ Len(segments) >= 5
           /\ SubSeq(segments, 1, 5) = LocalHeader
        THEN SubSeq(segments, 6, Len(segments))
        ELSE <<>>

\* C7 as claimed, on the decodes that end without failure and whose
\* collectionId is not empty: with allDescendants true the Target has an
\* empty base path and the collectionId as its collection group; with
\* allDescendants absent or false its base path is the parent path with the
\* collectionId appended and it has no collection group.  Violated: a
\* collection group query keeps the parent path as its base path.
CollectionGroupHasEmptyPath ==
    (OneSelectorDecoded /\ ok(status) /\ CollectionId # "") =>
        /\ AllDescendantsTrue =>
              /\ DecodedTarget.path = <<>>
              /\ DecodedTarget.collection_group = SomeGroup(CollectionId)
        /\ AllDescendantsAbsentOrFalse =>
              /\ DecodedTarget.path = Append(ParentPath, CollectionId)
              /\ DecodedTarget.collection_group = NoGroup

\* C7 amended: with allDescendants true the Target's base path is the
\* decoded parent path, unchanged (empty when the parent is the database
\* root), and its collection group is the collectionId, or none when the
\* collectionId is the empty string; with allDescendants absent or false
\* its base path is the parent path with the collectionId appended and it
\* has no collection group.  The two outcomes exclude each other.
CollectionSourceOutcome ==
    OneSelectorDecoded =>
        /\ AllDescendantsTrue =>
              /\ DecodedTarget.path = ParentPath
              /\ DecodedTarget.collection_group =
                     IF CollectionId = "" THEN NoGroup
                     ELSE SomeGroup(CollectionId)
        /\ AllDescendantsAbsentOrFalse =>
              /\ DecodedTarget.path = Append(ParentPath, CollectionId)
              /\ DecodedTarget.collection_group = NoGroup
        /\ ~(/\ DecodedTarget.collection_group # NoGroup
             /\ DecodedTarget.path = Append(ParentPath, CollectionId))

\* C7 witness: a collection group query below a document: the group is the
\* collectionId and the base path is the path of the parent document.
CollectionGroupBelowDocument ==
    /\ OneSelectorDecoded
    /\ ok(status)
    /\ AllDescendantsTrue
    /\ DecodedTarget.collection_group = SomeGroup("coll")
    /\ DecodedTarget.path = <<"c", "d1">>

\* The cases VerifyStructuredQuery rejects, read off the input: no
\* `structuredQuery` to be found, one that is not an object, one with
\* `select` or `offset`, one without `from`.
RejectedByVerification ==
    LET named_query == Parse(input)
        query == IF contains(named_query, "bundledQuery")
                 THEN at(named_query, "bundledQuery") ELSE named_query
    IN  \/ ~contains(named_query, "bundledQuery")
        \/ ~contains(query, "structuredQuery")
        \/ ~is_object(at(query, "structuredQuery"))
        \/ contains(at(query, "structuredQuery"), "select")
        \/ contains(at(query, "structuredQuery"), "offset")
        \/ ~contains(at(query, "structuredQuery"), "from")

QueryLocals ==
    {"parent", "collection_group", "filters", "order_bys", "start_at",
     "end_at", "limit", "limit_type"}

ReducedGrammarStep ==
    /\ (/\ pc = "named_query_args"
        /\ todo # <<>>
        /\ Head(todo) = "bundledQuery"
        /\ RejectedByVerification)
       => /\ ~ok(status')
          /\ pc' = "named_query_args"
          /\ locals'["bundledQuery"] = DefaultBundledQuery
          /\ QueryLocals \cap DOMAIN locals' = {}
    /\ (/\ pc = "query_from"
        /\ is_array(at(locals["structured_query"], "from"))
        /\ Len(at(locals["structured_query"], "from")[2]) # 1)
       => ~ok(status')

\* C8 (ReducedGrammar, the property of every step ReducedGrammarStep
\* describes): DecodeBundledQuery records a failure when `structuredQuery`
\* is missing or not an object, has `select` or `offset`, has no `from`, or
\* has a `from` array of a size other than 1; in all but the last case it
\* returns the default BundledQuery before parent, source, filters,
\* ordering, bounds or limits are decoded.
ReducedGrammar == [][ReducedGrammarStep]_vars

\* C8 witness: a query with `offset` was rejected and the default
\* BundledQuery stands for it, nothing else of the query being decoded.
OffsetRejected ==
    /\ entry = "DecodeNamedQuery"
    /\ pc = "named_query_args"
    /\ status.msg = <<"Queries with 'offset' are not supported in bundles">>
    /\ "bundledQuery" \in DOMAIN locals
    /\ locals["bundledQuery"] = DefaultBundledQuery
    /\ "parent" \notin DOMAIN locals

\* C9: once ok() is false it is false in every later state of the record
\* decode; no step returns the reader to the ok state.
FailureNeverCleared == [][~ok(status) => ~ok(status')]_vars

\* C9 witness: a decode ended with the status that set_status put in
\* place of an earlier failure of the same decode.
EndedWithReplacedFailure ==
    /\ pc = "returned"
    /\ status.code = "timestamp"
    /\ entry = "DecodeNamedQuery"
    /\ locals["name"] = ""
    /\ evalOrder = "ltr"

\* The composite filter of the query's `where`, when it has one.
HasCompositeFilter ==
    /\ contains(locals["structured_query"], "where")
    /\ contains(at(locals["structured_query"], "where"), "compositeFilter")

TheCompositeFilter ==
    at(at(locals["structured_query"], "where"), "compositeFilter")

OpIsAnd ==
    /\ contains(TheCompositeFilter, "op")
    /\ at(TheCompositeFilter, "op") = JStr("AND")

HasFilterArray ==
    /\ contains(TheCompositeFilter, "filters")
    /\ is_array(at(TheCompositeFilter, "filters"))

TheChildren == at(TheCompositeFilter, "filters")[2]

\* A child is valid when it has a `fieldFilter` that decodes, on its own,
\* without failure.
ValidChild(child) ==
    /\ contains(child, "fieldFilter")
    /\ ok(DecodeFieldFilter(OkStatus, at(child, "fieldFilter")).st)

CompositeFilterStep ==
    (pc = "query_where" /\ HasCompositeFilter) =>
        IF ~OpIsAnd
        THEN ~ok(status') /\ locals'["filters"] = <<>>
        ELSE IF HasFilterArray
        THEN IF \A i \in 1..Len(TheChildren) : ValidChild(TheChildren[i])
             THEN ok(status) =>
                    /\ ok(status')
                    /\ Len(locals'["filters"]) = Len(TheChildren)
                    /\ \A i \in 1..Len(TheChildren) :
                          locals'["filters"][i] =
                              DecodeFieldFilter(OkStatus,
                                                at(TheChildren[i],
                                                   "fieldFilter")).v
             ELSE ~ok(status') /\ locals'["filters"] = <<>>
        ELSE ~ok(status') /\ locals'["filters"] = <<>>

\* C10 (CompositeFilterContract, the property of every step
\* CompositeFilterStep describes): a compositeFilter whose op is not "AND"
\* records a failure and yields the empty FilterList; with op "AND" and k
\* valid fieldFilter children, decoded by a reader that is ok, it yields
\* the k decoded filters in source order; with a child that is not a valid
\* fieldFilter it records a failure and yields the empty FilterList.
CompositeFilterContract == [][CompositeFilterStep]_vars

\* C10 witness: two fieldFilter children under "AND" decoded to a
\* FilterList of two different filters.
TwoFiltersDecoded ==
    /\ pc = "query_order_by"
    /\ ok(status)
    /\ HasCompositeFilter
    /\ Len(locals["filters"]) = 2
    /\ locals["filters"][1] # locals["filters"][2]

\* The json key and the local variable of the bound each bound step decodes.
BoundOfStep ==
    [query_start_at |-> [key |-> "startAt", local |-> "start_at"],
     query_end_at |-> [key |-> "endAt", local |-> "end_at"]]

\* The bound json has a `values` array without elements.
EmptyValues(bound_json) ==
    /\ contains(bound_json, "values")
    /\ at(bound_json, "values") = JArr(<<>>)

BoundStep ==
    /\ (pc \in DOMAIN BoundOfStep) =>
          (LET b == BoundOfStep[pc]
               query == locals["structured_query"]
               AsAbsent == /\ status' = status
                           /\ locals' = Assign(b.local, NoBound)
           IN  /\ ~contains(query, b.key) => AsAbsent
               /\ (contains(query, b.key) /\ EmptyValues(at(query, b.key)))
                     => AsAbsent
               /\ locals'[b.local] # NoBound =>
                     /\ contains(query, b.key)
                     /\ locals'[b.local][2].position # <<>>
                     /\ (~contains(at(query, b.key), "before")
                           => locals'[b.local][2].before = FALSE))
    /\ (pc = "query_return") =>
          /\ locals'["bundledQuery"].target.start_at = locals["start_at"]
          /\ locals'["bundledQuery"].target.end_at = locals["end_at"]

\* C11 (BoundContract, the property of every step BoundStep describes):
\* for startAt and endAt alike, a bound whose `values` array is present and
\* empty leaves the reader's status as it was and yields no bound, which is
\* exactly the effect of the step when the bound key is absent; the Target
\* carries the start and end bound of these steps, a bound is carried only
\* when its decoded position is not empty, and its `before` is false when
\* the `before` key is absent.
BoundContract == [][BoundStep]_vars

\* C11 witness: a named query decoded without failure whose `startAt` has
\* an empty `values` array and whose `endAt` has a position and no
\* `before`: the Target has no start bound and has the end bound.
EmptyStartAtDecoded ==
    /\ NamedQueryDecoded
    /\ ok(status)
    /\ contains(InputStructuredQuery, "startAt")
    /\ EmptyValues(at(InputStructuredQuery, "startAt"))
    /\ contains(InputStructuredQuery, "endAt")
    /\ ~contains(at(InputStructuredQuery, "endAt"), "before")
    /\ DecodedTarget.start_at = NoBound
    /\ DecodedTarget.end_at # NoBound
    /\ DecodedTarget.end_at[2].before = FALSE

\* The json object a record is decoded from, and the shapes of its members.
TopLevel == Parse(input)

HasString(json_object, name) ==
    contains(json_object, name) /\ is_string(at(json_object, name))

\* An integer is encoded as a json integer or as a string of digits.
HasInt(json_object, name) ==
    /\ contains(json_object, name)
    /\ \/ is_number_integer(at(json_object, name))
       \/ is_string(at(json_object, name))

\* A timestamp is encoded as an RFC 3339 string or as an object of
\* `seconds` and `nanos`.
HasTimestamp(json_object, name) ==
    /\ contains(json_object, name)
    /\ \/ is_string(at(json_object, name))
       \/ /\ is_object(at(json_object, name))
          /\ HasInt(at(json_object, name), "seconds")
          /\ HasInt(at(json_object, name), "nanos")

HasStrings(json_object, name) ==
    /\ contains(json_object, name)
    /\ is_array(at(json_object, name))
    /\ \A i \in 1..Len(at(json_object, name)[2]) :
          is_string(at(json_object, name)[2][i])

HasBoolean(json_object, name) ==
    contains(json_object, name) /\ is_boolean(at(json_object, name))

DocumentMetadataDecoded ==
    entry = "DecodeDocumentMetadata" /\ pc = "returned"

\* C12 as stated: DecodeDocumentMetadata fails unless `name` is a string,
\* `readTime` is a timestamp, `exists` is a boolean and `queries` is an
\* array of strings.  Violated: `exists` is read with OptionalBool, which
\* records no failure.
MetadataFailsUnlessWellTyped ==
    (DocumentMetadataDecoded /\ ok(status)) =>
        /\ HasString(TopLevel, "name")
        /\ HasTimestamp(TopLevel, "readTime")
        /\ HasBoolean(TopLevel, "exists")
        /\ HasStrings(TopLevel, "queries")

\* The required top-level members of the record each entry point decodes.
RequiredMembers ==
    CASE entry = "DecodeBundleMetadata" ->
            /\ HasString(TopLevel, "id")
            /\ HasInt(TopLevel, "version")
            /\ HasTimestamp(TopLevel, "createTime")
            /\ HasInt(TopLevel, "totalDocuments")
            /\ HasInt(TopLevel, "totalBytes")
      [] entry = "DecodeNamedQuery" ->
            /\ HasString(TopLevel, "name")
            /\ contains(TopLevel, "bundledQuery")
            /\ HasTimestamp(TopLevel, "readTime")
      [] entry = "DecodeDocumentMetadata" ->
            /\ HasString(TopLevel, "name")
            /\ HasTimestamp(TopLevel, "readTime")
            /\ HasStrings(TopLevel, "queries")
      [] entry = "DecodeDocument" ->
            /\ HasString(TopLevel, "name")
            /\ HasTimestamp(TopLevel, "updateTime")
            /\ contains(TopLevel, "fields")
            /\ is_object(at(TopLevel, "fields"))

\* C12 (RequiredMembersChecked): a record decode that returns without a
\* recorded failure had every required top-level member of its schema,
\* with the right json type; for DecodeDocumentMetadata these are `name` (a
\* string), `readTime` (a timestamp) and `queries` (an array of strings),
\* while `exists` is optional: the decoded record's exists is true exactly
\* when the member is the boolean true, and a missing or non-boolean
\* `exists` records no failure.
RequiredMembersChecked ==
    (pc = "returned" /\ ok(status)) =>
        /\ RequiredMembers
        /\ entry = "DecodeDocumentMetadata" =>
              result[2].exists = (/\ HasBoolean(TopLevel, "exists")
                                  /\ at(TopLevel, "exists")[2])

\* C12 witness: a document metadata decoded without failure whose `exists`
\* is not a boolean; the record says the document does not exist.
MetadataDecodedWithoutExists ==
    /\ DocumentMetadataDecoded
    /\ ok(status)
    /\ contains(TopLevel, "exists")
    /\ ~is_boolean(at(TopLevel, "exists"))
    /\ result[2].exists = FALSE
    /\ result[2].queries # <<>>

\* The discriminator keys a value holds.
KeysOf(value) ==
    IF is_object(value) THEN DOMAIN value[2] \cap DiscriminatorKeys ELSE {}

\* The discriminator key of a value that holds one.
TheKey(value) == CHOOSE k \in KeysOf(value) : TRUE

\* A number is encoded as a json number or as a string that parses.
IntPayload(p) ==
    is_number_integer(p) \/ (is_string(p) /\ SimpleAtoi(p[2], "int64_t").ok)

DoublePayload(p) == is_number(p) \/ (is_string(p) /\ SimpleAtod(p[2]).ok)

TimestampPayload(p) ==
    \/ is_string(p) /\ p[2] \in DOMAIN RFC3339Times
    \/ /\ contains(p, "seconds") /\ IntPayload(at(p, "seconds"))
       /\ contains(p, "nanos") /\ is_number_integer(at(p, "nanos"))
       /\ at(p, "nanos")[2] \in 0..MaxNanos

\* A value with exactly one discriminator key and a well-formed payload for
\* it; the elements of an array and the fields of a map are such values.
RECURSIVE WellFormed(_)
WellFormed(value) ==
    /\ Cardinality(KeysOf(value)) = 1
    /\ LET k == TheKey(value)
           p == at(value, k)
       IN  CASE k = "nullValue" -> TRUE
             [] k = "booleanValue" -> is_boolean(p)
             [] k = "integerValue" -> IntPayload(p)
             [] k = "doubleValue" -> DoublePayload(p)
             [] k = "timestampValue" -> TimestampPayload(p)
             [] k = "stringValue" -> is_string(p)
             [] k = "bytesValue" -> is_string(p) /\ Base64Unescape(p[2]).ok
             [] k = "referenceValue" ->
                    is_string(p) /\ IsLocalResourceName(FromString(p[2]))
             [] k = "geoPointValue" ->
                    /\ contains(p, "latitude") /\ DoublePayload(at(p, "latitude"))
                    /\ contains(p, "longitude")
                    /\ DoublePayload(at(p, "longitude"))
             [] k = "arrayValue" ->
                    /\ contains(p, "values") /\ is_array(at(p, "values"))
                    /\ \A i \in 1..Len(at(p, "values")[2]) :
                          WellFormed(at(p, "values")[2][i])
             [] k = "mapValue" ->
                    /\ contains(p, "fields") /\ is_object(at(p, "fields"))
                    /\ \A n \in DOMAIN at(p, "fields")[2] :
                          WellFormed(at(at(p, "fields"), n))

\* The variant of FieldValue each discriminator key names.
VariantOf ==
    [nullValue |-> "null", booleanValue |-> "boolean",
     integerValue |-> "integer", doubleValue |-> "double",
     timestampValue |-> "timestamp", stringValue |-> "string",
     bytesValue |-> "blob", referenceValue |-> "reference",
     geoPointValue |-> "geo_point", arrayValue |-> "array",
     mapValue |-> "map"]

ValueStep ==
    (pc = "call") =>
        /\ KeysOf(input) = {} =>
              /\ ~ok(status')
              /\ ok(status) => status' # status
              /\ result' = Returned(NullValue)
        /\ (ok(status) /\ WellFormed(input)) =>
              /\ ok(status')
              /\ result'[2][1] = VariantOf[TheKey(input)]

\* C13 (ValueContract, the property of every call ValueStep describes):
\* DecodeValue on an input that is not a json object, or is an object with
\* none of the 11 discriminator keys, records a failure and returns the
\* Null placeholder; on an object with exactly one discriminator key whose
\* payload is well-formed, called with a reader that is ok, it records no
\* failure and returns the variant the key names.
ValueContract == [][ValueStep]_vars

\* C13 witness: a well-formed map value decoded to a Map without failure.
MapValueDecoded ==
    /\ entry = "DecodeValue"
    /\ pc = "returned"
    /\ ok(status)
    /\ WellFormed(input)
    /\ TheKey(input) = "mapValue"
    /\ result[2][1] = "map"
    /\ DOMAIN result[2][2] = {"a"}

HasPlaceholder(filters) ==
    \E i \in 1..Len(filters) : filters[i] = InvalidFilter

\* C15 (PlaceholderSuppressed): in every execution of DecodeNamedQuery, a
\* FilterList that holds the placeholder filter, as DecodeWhere left it or
\* as the returned query carries it, goes with a reader whose ok() is
\* false, up to and at the return of the decode.
PlaceholderSuppressed ==
    /\ ("filters" \in DOMAIN locals /\ HasPlaceholder(locals["filters"]))
          => ~ok(status)
    /\ (NamedQueryDecoded /\ HasPlaceholder(DecodedTarget.filters))
          => ~ok(status)

\* C15 witness: a named query returned with the placeholder of a failed
\* unaryFilter in its FilterList and a reader that is not ok.
PlaceholderReturnedWithFailure ==
    /\ NamedQueryDecoded
    /\ DecodedTarget.filters = <<InvalidFilter>>
    /\ contains(at(InputStructuredQuery, "where"), "unaryFilter")
    /\ ~ok(status)

\* The discriminator key of a value that comes first in the order of the
\* tests of DecodeValue.
FirstKey(value) ==
    Discriminators[CHOOSE i \in 1..Len(Discriminators) :
                      /\ Discriminators[i] \in KeysOf(value)
                      /\ \A j \in 1..(i - 1) :
                            Discriminators[j] \notin KeysOf(value)]

\* The object that holds the first discriminator key of a value alone.
FirstAlone(value) == JObj(FirstKey(value) :> at(value, FirstKey(value)))

AmbiguityStep ==
    (pc = "call" /\ Cardinality(KeysOf(input)) > 1) =>
        /\ \E d \in {DecodeValue(status, FirstAlone(input))} :
              /\ status' = d.st
              /\ result' = Returned(d.v)
        /\ (ok(status) /\ WellFormed(FirstAlone(input))) => ok(status')

\* C16 (FirstKeyWins, the property of every call AmbiguityStep describes):
\* on a value object with more than one discriminator key DecodeValue
\* records no failure for the ambiguity and decodes only the key that
\* comes first in the order nullValue, booleanValue, integerValue,
\* doubleValue, timestampValue, stringValue, bytesValue, referenceValue,
\* geoPointValue, arrayValue, mapValue: the status and the value it leaves
\* are those of the object holding that first key alone.
FirstKeyWins == [][AmbiguityStep]_vars

\* C16 witness: a value with two discriminator keys decoded without
\* failure to the variant of the first one, which is not nullValue, while
\* the payload of the other key is one its decoder rejects.
SecondKeyIgnored ==
    /\ entry = "DecodeValue"
    /\ pc = "returned"
    /\ Cardinality(KeysOf(input)) = 2
    /\ FirstKey(input) # "nullValue"
    /\ \E k \in KeysOf(input) \ {FirstKey(input)} :
          ~WellFormed(JObj(k :> at(input, k)))
    /\ ok(status)
    /\ result[2][1] = VariantOf[FirstKey(input)]

====
